---- MODULE Spec2Model ----
(***************************************************************************)
(* GTM AI Operations Hub: the web application's database handlers          *)
(* (webapp/app.py over the schema of data/seed.py), the LLM agent          *)
(* (agent/agent.py) and the Relevance AI handler                           *)
(* (agent/relevance_handler.py).                                           *)
(*                                                                         *)
(* One set of variables, several specifications: each specification moves  *)
(* the variables of one component and leaves the others at their initial   *)
(* value.                                                                  *)
(*   Spec        POST /intake, POST /backlog/update, GET /backlog, one     *)
(*               request after another: the handlers are coroutines that   *)
(*               never await, so the event loop runs each to completion    *)
(*   SpecLab     POST /builder/{request_id}/prompt-lab calls whose steps   *)
(*               interleave at the handler's waits                         *)
(*   SpecLabSeq  the same calls, one after another                         *)
(*   SpecAgent   the four task operations of GTMOpsAgent over _call_llm    *)
(*               and _parse_json                                           *)
(*   SpecRelevance  trigger_research and chat_with_agent of                *)
(*               RelevanceAgentHandler, with the poll loop                 *)
(*   SpecPages, SpecApp, SpecImpact  the page routes                       *)
(*   SpecSeed, SpecSeedSeq, SpecSeedFault  get_db over a new database      *)
(*               file: calls that interleave, calls one after another,     *)
(*               and calls whose seed statements may fail                  *)
(*   SpecParse   _parse_json as a function of its argument                 *)
(***************************************************************************)
EXTENDS Integers, Sequences, FiniteSets, TLC

VARIABLES
    intake_requests,   \* table intake_requests: a set of rows
    backlog_items,     \* table backlog_items: a set of rows
    prompt_versions,   \* table prompt_versions: a set of rows
    impact_metrics,    \* table impact_metrics: a set of rows
    audit_log,         \* table audit_log: a set of rows
    qa_checks,         \* table qa_checks: a set of rows
    db_initialized,    \* app.py: the module-level flag _db_initialized
    tables_created,    \* whether the six tables exist in the database file
    racers,            \* the get_db calls in progress: pc and position in seed_data
    open_connections,  \* how many connections the handlers have opened and not closed
    intake,            \* the POST /intake handler in flight (pc and locals)
    response,          \* the response the step just taken returned, if it returned one
    board,             \* the board the step just taken rendered (GET /backlog)
    page,              \* the template context or JSON body the step just taken returned
    lab,               \* the POST /builder/{request_id}/prompt-lab calls: pc, locals, result
    hf_token,          \* GTMOpsAgent.hf_token: whether a credential is configured
    agent,             \* the task operation of GTMOpsAgent in progress: pc, locals, result
    mock_globals,      \* the module-level dicts MOCK_*_RESPONSE of prompts.py, by task
    mock_summaries,    \* the fallback narratives generate_executive_summary has returned
                       \* with no credential configured
    relevance_config,  \* RelevanceAgentHandler: project_id, api_key, agent_id
    relevance,         \* the trigger_research / chat_with_agent call in progress
    parsing            \* one call of GTMOpsAgent._parse_json: its argument and its outcome

dbVars  == <<intake_requests, backlog_items, prompt_versions>>
\* The tables no route writes, the state of the lazy initialization and the
\* connections of get_db.
readOnlyVars == <<impact_metrics, audit_log, qa_checks>>
initVars == <<db_initialized, tables_created, racers>>
getDbVars == <<initVars, open_connections>>
webVars == <<intake, response, board, page>>
labVars == <<lab>>
agentVars == <<hf_token, agent, mock_globals, mock_summaries>>
relevanceVars == <<relevance_config, relevance>>
parseVars == <<parsing>>

\* What the handlers of Spec leave alone.
outsideWeb == <<labVars, agentVars, relevanceVars, parseVars, readOnlyVars, initVars>>
\* What the prompt-lab handler leaves alone.
outsideLab == <<intake_requests, backlog_items, webVars, agentVars, relevanceVars, parseVars,
                readOnlyVars, initVars>>
\* What the agent leaves alone.
outsideAgent == <<dbVars, webVars, labVars, relevanceVars, parseVars, readOnlyVars, getDbVars>>
\* What the Relevance handler leaves alone.
outsideRelevance == <<dbVars, webVars, labVars, agentVars, parseVars, readOnlyVars, getDbVars>>

\* ------------------------------------------------------------------ bounds

\* How many arrays and objects json.loads descends into, one inside the other,
\* before the interpreter's recursion limit stops it with RecursionError.
MaxNesting == 3

\* How many distinct values uuid4().hex[:6] takes in the model, per id prefix.
MaxGenIds == 2

\* How many distinct values uuid4().hex[:6] takes for prompt version ids.
MaxPvIds == 3

\* The length up to which every text over Alphabet is an LLM answer of the model.
MaxTextLen == 2

\* The length up to which every list over Updates is a poll body of the model.
MaxUpdates == 1

\* How many connections may be open at once (opened and not closed).
MaxOpenConnections == 2

\* How many readings datetime.now() may give.
MaxClock == 1

\* How many get_db calls may be in progress at once.
MaxRacers == 2

\* How many prompt-lab calls may be in progress at once.
MaxCalls == 2

\* ------------------------------------------------------------------ schema and seed

\* A generated id: prefix + six hex characters (app.py: f"REQ-{uuid.uuid4().hex[:6].upper()}").
GenId(prefix, i) == prefix \o "-00000" \o ToString(i)

GenReqIds == { GenId("REQ", i) : i \in 1..MaxGenIds }
GenBlgIds == { GenId("BLG", i) : i \in 1..MaxGenIds }
GenPvIds  == { GenId("PV", i) : i \in 1..MaxPvIds }

\* The six Kanban columns of GET /backlog, in the order of the columns dict.
KanbanColumns == <<"Intake", "Scoping", "In Build", "QA", "Deployed", "Measuring">>

KanbanLabels == { KanbanColumns[i] : i \in DOMAIN KanbanColumns }

\* models.py: the values of the enumerations GTMStage, Complexity and Approach.
GTMStage == {"Pipeline Generation", "Deal Execution", "Onboarding & Adoption", "Renewal & Expansion"}
Complexity == {"Quick Win", "Medium", "Strategic"}
Approach == {"AI Agent", "Workflow Automation", "Data Fix", "Process Change"}

\* seed_data: requests_data (id, requester_team, priority_score; status takes the
\* column default 'Intake').
SeedIntakeRequests ==
    { [id |-> "REQ-001", requester_team |-> "Sales (SDR)",      priority_score |-> 8, status |-> "Intake"],
      [id |-> "REQ-002", requester_team |-> "Customer Success", priority_score |-> 9, status |-> "Intake"],
      [id |-> "REQ-003", requester_team |-> "RevOps",           priority_score |-> 6, status |-> "Intake"],
      [id |-> "REQ-004", requester_team |-> "Sales (AE)",       priority_score |-> 7, status |-> "Intake"],
      [id |-> "REQ-005", requester_team |-> "Marketing Ops",    priority_score |-> 8, status |-> "Intake"],
      [id |-> "REQ-006", requester_team |-> "Customer Success", priority_score |-> 7, status |-> "Intake"],
      [id |-> "REQ-007", requester_team |-> "Sales (Manager)",  priority_score |-> 6, status |-> "Intake"],
      [id |-> "REQ-008", requester_team |-> "RevOps",           priority_score |-> 5, status |-> "Intake"] }

\* seed_data: backlog_data (id, request_id, requester_team, priority_score, status);
\* updated_at takes the column default, the time of seeding.
SeedBacklogItems ==
    { [id |-> "BLG-001", request_id |-> "REQ-001", requester_team |-> "Sales (SDR)",      priority_score |-> 8, status |-> "In Build", updated_at |-> 0],
      [id |-> "BLG-002", request_id |-> "REQ-002", requester_team |-> "Customer Success", priority_score |-> 9, status |-> "Scoping", updated_at |-> 0],
      [id |-> "BLG-003", request_id |-> "REQ-003", requester_team |-> "RevOps",           priority_score |-> 6, status |-> "Deployed", updated_at |-> 0],
      [id |-> "BLG-004", request_id |-> "REQ-004", requester_team |-> "Sales (AE)",       priority_score |-> 7, status |-> "QA", updated_at |-> 0],
      [id |-> "BLG-005", request_id |-> "REQ-005", requester_team |-> "Marketing Ops",    priority_score |-> 8, status |-> "Scoping", updated_at |-> 0],
      [id |-> "BLG-006", request_id |-> "REQ-006", requester_team |-> "Customer Success", priority_score |-> 7, status |-> "In Build", updated_at |-> 0],
      [id |-> "BLG-007", request_id |-> "REQ-007", requester_team |-> "Sales (Manager)",  priority_score |-> 6, status |-> "Intake", updated_at |-> 0],
      [id |-> "BLG-008", request_id |-> "REQ-008", requester_team |-> "RevOps",           priority_score |-> 5, status |-> "Intake", updated_at |-> 0] }

\* seed_data: prompt_data (id, request_id, version, quality_score in tenths).
SeedPromptVersions ==
    { [id |-> "PV-001", request_id |-> "REQ-001", version |-> 1, quality_score |-> 65],
      [id |-> "PV-002", request_id |-> "REQ-001", version |-> 2, quality_score |-> 82],
      [id |-> "PV-003", request_id |-> "REQ-002", version |-> 1, quality_score |-> 58],
      [id |-> "PV-004", request_id |-> "REQ-002", version |-> 2, quality_score |-> 79] }

\* seed_data: impact_data (id, request_id, manual_time_before, ai_time_after,
\* adoption_rate, roi_estimate, weeks_deployed). The DOUBLE columns are held in
\* tenths: 8.0 is 80, 1.5 is 15, 92.0 is 920.
SeedImpactMetrics ==
    { [id |-> "IMP-001", request_id |-> "REQ-003", manual_time_before |-> 80,  ai_time_after |-> 15,
       adoption_rate |-> 920, roi_estimate |-> 42000, weeks_deployed |-> 6],
      [id |-> "IMP-002", request_id |-> "REQ-001", manual_time_before |-> 150, ai_time_after |-> 30,
       adoption_rate |-> 780, roi_estimate |-> 85000, weeks_deployed |-> 3],
      [id |-> "IMP-003", request_id |-> "REQ-004", manual_time_before |-> 50,  ai_time_after |-> 10,
       adoption_rate |-> 0,   roi_estimate |-> 0,     weeks_deployed |-> 0],
      [id |-> "IMP-004", request_id |-> "REQ-006", manual_time_before |-> 200, ai_time_after |-> 50,
       adoption_rate |-> 0,   roi_estimate |-> 0,     weeks_deployed |-> 0] }

\* Mutant of SeedAuditLog: only the first row of audit_data is stored.
SeedAuditLogFirstRow ==
    { [id |-> "AUD-001", event_type |-> "triage", request_id |-> "REQ-001"] }

\* seed_data: audit_data (id, event_type, request_id), AUD-001 .. AUD-012.
SeedAuditLog ==
    { [id |-> "AUD-001", event_type |-> "triage",              request_id |-> "REQ-001"],
      [id |-> "AUD-002", event_type |-> "intake_received",     request_id |-> "REQ-001"],
      [id |-> "AUD-003", event_type |-> "triage",              request_id |-> "REQ-002"],
      [id |-> "AUD-004", event_type |-> "blueprint_generated", request_id |-> "REQ-001"],
      [id |-> "AUD-005", event_type |-> "prompt_tested",       request_id |-> "REQ-001"],
      [id |-> "AUD-006", event_type |-> "qa_completed",        request_id |-> "REQ-003"],
      [id |-> "AUD-007", event_type |-> "status_change",       request_id |-> "REQ-003"],
      [id |-> "AUD-008", event_type |-> "deployment",          request_id |-> "REQ-003"],
      [id |-> "AUD-009", event_type |-> "prompt_tested",       request_id |-> "REQ-002"],
      [id |-> "AUD-010", event_type |-> "qa_completed",        request_id |-> "REQ-004"],
      [id |-> "AUD-011", event_type |-> "status_change",       request_id |-> "REQ-001"],
      [id |-> "AUD-012", event_type |-> "compliance_review",   request_id |-> "REQ-002"] }

\* seed_data: qa_data (id, request_id, status), QA-001 .. QA-010.
SeedQaChecks ==
    { [id |-> "QA-001", request_id |-> "REQ-003", status |-> "pass"],
      [id |-> "QA-002", request_id |-> "REQ-003", status |-> "pass"],
      [id |-> "QA-003", request_id |-> "REQ-003", status |-> "pass"],
      [id |-> "QA-004", request_id |-> "REQ-003", status |-> "pass"],
      [id |-> "QA-005", request_id |-> "REQ-004", status |-> "pass"],
      [id |-> "QA-006", request_id |-> "REQ-004", status |-> "pass"],
      [id |-> "QA-007", request_id |-> "REQ-004", status |-> "warning"],
      [id |-> "QA-008", request_id |-> "REQ-004", status |-> "pass"],
      [id |-> "QA-009", request_id |-> "REQ-001", status |-> "warning"],
      [id |-> "QA-010", request_id |-> "REQ-001", status |-> "pass"] }

Ids(table) == { r.id : r \in table }

\* dict.get(key, default)
Get(d, key, default) == IF key \in DOMAIN d THEN d[key] ELSE default

\* Python values: what json.loads returns, and None.
PyNone == [type |-> "NoneType"]
PyBool(b) == [type |-> "bool", b |-> b]
PyNum(n) == [type |-> "int", n |-> n]
PyStr(s) == [type |-> "str", s |-> s]
PyList(elems) == [type |-> "list", elems |-> elems]
PyDict(items) == [type |-> "dict", items |-> items]

EmptyItems == [k \in {} |-> PyNone]

\* d[key] = value on a dict's items
SetItem(items, key, value) ==
    [k \in DOMAIN items \cup {key} |-> IF k = key THEN value ELSE items[k]]

\* bool(v)
Truthy(v) ==
    CASE v.type = "NoneType" -> FALSE
      [] v.type = "bool" -> v.b
      [] v.type = "int" -> v.n # 0
      [] v.type = "str" -> v.s # ""
      [] v.type = "list" -> v.elems # <<>>
      [] v.type = "dict" -> DOMAIN v.items # {}

\* ------------------------------------------------------------------ template contexts

\* The columns of a row that its INSERT did not set are NULL.
IsNull(row, name) == name \notin DOMAIN row

\* Context values besides the Python values above: the Request object, a float
\* held in tenths, a list of rows with its length and, where the query has no
\* LIMIT, the ids of its rows, and a row as a dict.
RequestObject == [type |-> "Request"]
Tenths(n) == [type |-> "float", tenths |-> n]
RowList(ids) == [type |-> "list", len |-> Cardinality(ids), ids |-> ids]
TopRows(ids, limit) ==
    [type |-> "list", len |-> IF Cardinality(ids) < limit THEN Cardinality(ids) ELSE limit]
EmptyList == RowList({})
RowDict(row) == [type |-> "row", row |-> row]

\* str(e) of the exception the except clause caught.
ErrorText(exc) == PyStr(exc)

\* round(num / den, 0 decimals of the unit of num): to the nearest, ties to even.
RoundDiv(num, den) ==
    LET q == num \div den
        r == num % den
    IN IF 2 * r < den THEN q
       ELSE IF 2 * r > den THEN q + 1
       ELSE IF q % 2 = 0 THEN q ELSE q + 1

\* Mutant of Measured: the aggregates have no WHERE clause.
MeasuredEveryRow(rows) == rows

\* WHERE weeks_deployed > 0
Measured(rows) == { m \in rows : m.weeks_deployed > 0 }

RECURSIVE SumTimeSaved(_)
\* SUM(manual_time_before - ai_time_after), in tenths of an hour
SumTimeSaved(rows) ==
    IF rows = {} THEN 0
    ELSE LET m == CHOOSE x \in rows : TRUE
         IN (m.manual_time_before - m.ai_time_after) + SumTimeSaved(rows \ {m})

RECURSIVE SumColumn(_, _)
\* SUM(<column>)
SumColumn(rows, name) ==
    IF rows = {} THEN 0
    ELSE LET m == CHOOSE x \in rows : TRUE
         IN m[name] + SumColumn(rows \ {m}, name)

\* COALESCE(SUM(manual_time_before - ai_time_after), 0) FROM impact_metrics
\* WHERE weeks_deployed > 0, then round(.., 1)
TotalTimeSaved == Tenths(SumTimeSaved(Measured(impact_metrics)))

\* COALESCE(SUM(roi_estimate), 0) ... WHERE weeks_deployed > 0, then round(.., 0)
TotalRoi == Tenths(10 * RoundDiv(SumColumn(Measured(impact_metrics), "roi_estimate"), 10))

\* COALESCE(AVG(adoption_rate), 0) ... WHERE weeks_deployed > 0, then round(.., 1)
AvgAdoption ==
    LET rows == Measured(impact_metrics)
    IN IF rows = {} THEN Tenths(0)
       ELSE Tenths(RoundDiv(SumColumn(rows, "adoption_rate"), Cardinality(rows)))

\* SELECT COUNT(*) FROM impact_metrics WHERE weeks_deployed > 0
DeployedCount == PyNum(Cardinality(Measured(impact_metrics)))

\* GET /: the context of the try block and of the except clause.
OverviewContext ==
    [request |-> RequestObject,
     total_requests |-> PyNum(Cardinality(intake_requests)),
     in_progress |-> PyNum(Cardinality({ b \in backlog_items : b.status \in {"Scoping", "In Build", "QA"} })),
     deployed |-> PyNum(Cardinality({ b \in backlog_items : b.status \in {"Deployed", "Measuring"} })),
     total_time_saved |-> TotalTimeSaved,
     status_counts |-> RowList({ b.status : b \in backlog_items }),
     team_counts |-> RowList({ r.requester_team : r \in intake_requests }),
     recent |-> TopRows(Ids(intake_requests), 5),
     audit_entries |-> TopRows(Ids(audit_log), 5),
     error |-> PyNone]

OverviewError(exc) ==
    [request |-> RequestObject, error |-> ErrorText(exc),
     total_requests |-> PyNum(0), in_progress |-> PyNum(0), deployed |-> PyNum(0),
     total_time_saved |-> PyNum(0), status_counts |-> EmptyList, team_counts |-> EmptyList,
     recent |-> EmptyList]

\* GET /intake
IntakePageContext ==
    [request |-> RequestObject, queue |-> TopRows(Ids(intake_requests), 10),
     result |-> PyNone, error |-> PyNone]

IntakePageError(exc) ==
    [request |-> RequestObject, queue |-> EmptyList, result |-> PyNone, error |-> ErrorText(exc)]

\* POST /intake
IntakeSubmitContext(req_id, triage) ==
    [request |-> RequestObject,
     result |-> [type |-> "dict", request_id |-> req_id, triage |-> triage],
     error |-> PyNone]

IntakeSubmitError(exc) ==
    [request |-> RequestObject, result |-> PyNone, error |-> ErrorText(exc)]

\* GET /backlog
BacklogContext(team, status, items, columns, teams) ==
    [request |-> RequestObject,
     columns |-> [col \in DOMAIN columns |-> RowList(Ids(columns[col]))],
     teams |-> RowList(teams), active_team |-> PyStr(team), active_status |-> PyStr(status),
     total_items |-> PyNum(Cardinality(items)), error |-> PyNone]

BacklogError(exc) ==
    [request |-> RequestObject,
     columns |-> [col \in {"Intake", "Scoping", "In Build", "QA", "Deployed", "Measuring"} |->
                    RowList({})],
     teams |-> RowList({}), active_team |-> PyStr(""), active_status |-> PyStr(""),
     total_items |-> PyNum(0), error |-> ErrorText(exc)]

\* GET /builder/{request_id}: requirements is json.loads(requirements_json) when
\* the column is set (POST /intake stores json.dumps of a dict) and None otherwise.
BuilderContext(item) ==
    [request |-> RequestObject, item |-> RowDict(item),
     requirements |-> IF IsNull(item, "requirements_json") THEN PyNone
                      ELSE PyDict(EmptyItems),
     blueprint |-> PyNone,
     prompt_versions |-> RowList(Ids({ p \in prompt_versions : p.request_id = item.id })),
     error |-> PyNone]

BuilderError(message) ==
    [request |-> RequestObject, item |-> PyNone, error |-> PyStr(message),
     blueprint |-> PyNone, prompt_versions |-> EmptyList]

\* GET /governance
GovernanceContext ==
    LET qa_total == Cardinality(qa_checks)
        qa_passed == Cardinality({ q \in qa_checks : q.status = "pass" })
        scored == { p \in prompt_versions : ~IsNull(p, "quality_score") }
        rated == { p \in scored : p.quality_score > 0 }
    IN [request |-> RequestObject,
        audit_entries |-> TopRows(Ids(audit_log), 20),
        qa_results |-> RowList(Ids(qa_checks)),
        total_events |-> PyNum(Cardinality(audit_log)),
        qa_pass_rate |-> IF qa_total > 0 THEN Tenths(RoundDiv(qa_passed * 1000, qa_total))
                         ELSE PyNum(0),
        avg_quality |-> IF rated = {} THEN Tenths(0)
                        ELSE Tenths(RoundDiv(SumColumn(rated, "quality_score"), Cardinality(rated))),
        active_workflows |-> PyNum(Cardinality({ q.request_id : q \in qa_checks })),
        error |-> PyNone]

GovernanceError(exc) ==
    [request |-> RequestObject, audit_entries |-> EmptyList, qa_results |-> EmptyList,
     total_events |-> PyNum(0), qa_pass_rate |-> PyNum(0), avg_quality |-> PyNum(0),
     active_workflows |-> PyNum(0), error |-> ErrorText(exc)]

\* GET /impact
ImpactContext ==
    [request |-> RequestObject, metrics |-> RowList(Ids(impact_metrics)),
     total_time_saved |-> TotalTimeSaved, total_roi |-> TotalRoi,
     avg_adoption |-> AvgAdoption, deployed_count |-> DeployedCount, error |-> PyNone]

ImpactError(exc) ==
    [request |-> RequestObject, metrics |-> EmptyList, error |-> ErrorText(exc),
     total_time_saved |-> PyNum(0), total_roi |-> PyNum(0), avg_adoption |-> PyNum(0),
     deployed_count |-> PyNum(0)]

\* templates.TemplateResponse(template, context) / JSONResponse(body, status_code)
TemplateResponse(route, template, context) ==
    [route |-> route, template |-> template, status_code |-> 200, context |-> context,
     llm_calls |-> 0]

JSONResponse(route, body, status_code, llm_calls) ==
    [route |-> route, template |-> "json", status_code |-> status_code, context |-> body,
     llm_calls |-> llm_calls]

\* ------------------------------------------------------------------ POST /intake

\* What agent.triage_request hands to intake_submit: MOCK_TRIAGE_RESPONSE tagged
\* "mock", or an object parsed from the LLM's text (here: one carrying a priority
\* score, one carrying none of the expected keys), or an exception.
TriageResults ==
    { [_source |-> "mock", gtm_stage |-> "Pipeline Generation", complexity |-> "Medium",
       approach |-> "AI Agent", priority_score |-> 7,
       summary |-> [text |-> "Automate lead research", len |-> 59]],
      [_source |-> "llm"] }

\* A text with its length in characters, and text[:n].
Text(text, len) == [text |-> text, len |-> len]
Slice(t, n) == IF t.len <= n THEN t ELSE Text(t.text \o "[:" \o ToString(n) \o "]", n)

\* Form fields of POST /intake: a submission that gives every field, and one
\* that omits urgency; the pain points are 80 and 40 characters long.
FormInputs ==
    { [requester_name |-> "Ana", requester_team |-> "RevOps",
       pain_point |-> Text("manual cleanup", 80), workflow_stage |-> "Data Management",
       manual_time_hours |-> 8, urgency |-> "High"],
      [requester_name |-> "Ben", requester_team |-> "RevOps",
       pain_point |-> Text("slow handoff", 40), workflow_stage |-> "Prospecting",
       manual_time_hours |-> 3] }

\* Mutant of Urgency: the default is stored whatever was submitted.
UrgencyDefault(form) == "Medium"

\* urgency: str = Form("Medium")
Urgency(form) == IF "urgency" \in DOMAIN form THEN form.urgency ELSE "Medium"

\* What datetime.now() may return; 0 is the time the seed rows were stored.
Clock == 1..MaxClock

NoForm == [requester_team |-> ""]

IdleIntake == [pc |-> "idle", form |-> NoForm, triage |-> [_source |-> "none"],
               req_id |-> "", blg_id |-> "", now |-> 0, events |-> <<>>]

\* Mutant of NextStep: the first INSERT is issued before the requirements call.
NextStepWriteFirst(pc) ==
    CASE pc = "triage" -> "insert_request"
      [] pc = "insert_request" -> "requirements"
      [] pc = "requirements" -> "insert_backlog"
      [] pc = "insert_backlog" -> "respond"

\* The statements of the try block of intake_submit, in program order.
NextStep(pc) ==
    CASE pc = "triage" -> "requirements"
      [] pc = "requirements" -> "insert_request"
      [] pc = "insert_request" -> "insert_backlog"
      [] pc = "insert_backlog" -> "respond"

\* The step at pc has finished.
Finished(pc) == [intake EXCEPT !.pc = NextStep(pc), !.events = Append(@, pc)]

\* No response has been produced by the step just taken.
NoResponse == [route |-> "none", status_code |-> 0, ok |-> TRUE]

\* No page or JSON body has been returned by the step just taken. A returned one
\* has the route, the template (or "json"), the status code, the context (the
\* JSON body) as a function from its keys, and the number of LLM calls made.
NoPage == [route |-> "none", template |-> "", status_code |-> 0, context |-> <<>>, llm_calls |-> 0]

\* No board has been rendered by the step just taken.
NoBoard == [rendered |-> FALSE, team |-> "", status |-> "", items |-> {},
            columns |-> [col \in KanbanLabels |-> {}], total_items |-> 0]

ErrorPage(route) == [route |-> route, status_code |-> 200, ok |-> FALSE]
OkPage(route) == [route |-> route, status_code |-> 200, ok |-> TRUE]
JsonResponse(route, code, success) == [route |-> route, status_code |-> code, ok |-> success]

\* intake_submit is entered with the submitted form.
IntakeBegin(form) ==
    /\ intake.pc = "idle"
    /\ intake' = [IdleIntake EXCEPT !.pc = "triage", !.form = form]
    /\ response' = NoResponse
    /\ board' = NoBoard
    /\ page' = NoPage
    /\ UNCHANGED outsideWeb
    /\ UNCHANGED <<dbVars, open_connections>>

\* con = get_db() is possible: the bound on open connections is not reached.
CanOpen == open_connections < MaxOpenConnections

\* An exception anywhere in the try block: the except clause renders the page
\* with the error; nothing is rolled back and the connection is not closed.
IntakeFail ==
    /\ intake' = IdleIntake
    /\ response' = ErrorPage("POST /intake")
    /\ page' = TemplateResponse("POST /intake", "intake.html", IntakeSubmitError("exception"))

\* triage = agent.triage_request(...); req_id = REQ-<uuid>; now = datetime.now()
IntakeTriage(result, raises, rid, now) ==
    /\ intake.pc = "triage"
    /\ IF raises
         THEN IntakeFail
         ELSE /\ intake' = [Finished("triage") EXCEPT !.triage = result, !.req_id = rid,
                                                      !.now = now]
              /\ response' = NoResponse
              /\ page' = NoPage
    /\ board' = NoBoard
    /\ UNCHANGED outsideWeb
    /\ UNCHANGED <<dbVars, open_connections>>

\* requirements = agent.generate_requirements(pain_point); con = get_db()
IntakeRequirements(raises) ==
    /\ intake.pc = "requirements"
    /\ IF raises
         THEN /\ IntakeFail
              /\ UNCHANGED open_connections
         ELSE /\ CanOpen
              /\ open_connections' = open_connections + 1
              /\ intake' = Finished("requirements")
              /\ response' = NoResponse
              /\ page' = NoPage
    /\ board' = NoBoard
    /\ UNCHANGED outsideWeb
    /\ UNCHANGED dbVars

\* The row the first INSERT stores.
IntakeRow ==
    [id |-> intake.req_id,
     requester_name |-> intake.form.requester_name,
     requester_team |-> intake.form.requester_team,
     pain_point |-> intake.form.pain_point,
     workflow_stage |-> intake.form.workflow_stage,
     manual_time_hours |-> intake.form.manual_time_hours,
     urgency |-> Urgency(intake.form),
     created_at |-> intake.now,
     gtm_stage |-> Get(intake.triage, "gtm_stage", "Unknown"),
     complexity |-> Get(intake.triage, "complexity", "Unknown"),
     approach |-> Get(intake.triage, "approach", "Unknown"),
     priority_score |-> Get(intake.triage, "priority_score", 5),
     triage_summary |-> Get(intake.triage, "summary", Slice(intake.form.pain_point, 100)),
     requirements_json |-> "json.dumps(requirements)",
     status |-> "Intake"]

\* INSERT INTO intake_requests: the statement commits on its own (no transaction
\* is opened); a primary-key collision or a database fault raises.
IntakeInsertRequest(fault, bid) ==
    /\ intake.pc = "insert_request"
    /\ IF fault \/ intake.req_id \in Ids(intake_requests)
         THEN /\ IntakeFail
              /\ UNCHANGED intake_requests
         ELSE /\ intake_requests' = intake_requests \cup {IntakeRow}
              /\ intake' = [Finished("insert_request") EXCEPT !.blg_id = bid]
              /\ response' = NoResponse
              /\ page' = NoPage
    /\ board' = NoBoard
    /\ UNCHANGED outsideWeb
    /\ UNCHANGED <<backlog_items, prompt_versions, open_connections>>

\* The row the second INSERT stores.
BacklogRow ==
    [id |-> intake.blg_id, request_id |-> intake.req_id,
     title |-> Get(intake.triage, "summary", Slice(intake.form.pain_point, 60)),
     requester_name |-> intake.form.requester_name,
     requester_team |-> intake.form.requester_team,
     gtm_stage |-> Get(intake.triage, "gtm_stage", "Unknown"),
     complexity |-> Get(intake.triage, "complexity", "Unknown"),
     approach |-> Get(intake.triage, "approach", "Unknown"),
     priority_score |-> Get(intake.triage, "priority_score", 5),
     status |-> "Intake", created_at |-> intake.now, updated_at |-> intake.now]

\* INSERT INTO backlog_items: primary key on id, foreign key on request_id. When
\* it raises, the first INSERT has committed and the except clause issues no
\* statement.
IntakeInsertBacklog(fault) ==
    /\ intake.pc = "insert_backlog"
    /\ IF \/ fault
          \/ intake.blg_id \in Ids(backlog_items)
          \/ intake.req_id \notin Ids(intake_requests)
         THEN /\ IntakeFail
              /\ UNCHANGED backlog_items
         ELSE /\ backlog_items' = backlog_items \cup {BacklogRow}
              /\ intake' = Finished("insert_backlog")
              /\ response' = NoResponse
              /\ page' = NoPage
    /\ board' = NoBoard
    /\ UNCHANGED outsideWeb
    /\ UNCHANGED <<intake_requests, prompt_versions, open_connections>>

\* con.close(); return the page with the triage result.
IntakeRespond ==
    /\ intake.pc = "respond"
    /\ intake' = IdleIntake
    /\ open_connections' = open_connections - 1
    /\ response' = OkPage("POST /intake")
    /\ board' = NoBoard
    /\ page' = TemplateResponse("POST /intake", "intake.html",
                                IntakeSubmitContext(intake.req_id, intake.triage))
    /\ UNCHANGED outsideWeb
    /\ UNCHANGED dbVars

\* ------------------------------------------------------------------ get_db and initialize_database

\* The handlers that may be inside get_db at once.
Racers == 1..MaxRacers

\* pc of a get_db call: "idle" no call; "initialize" the flag was read as False;
\* "create", "count", "seed" inside initialize_database (connection open);
\* "set_flag" initialize_database has returned; "connect" before duckdb.connect;
\* "handler" get_db has returned a connection to the handler; "failed" an
\* exception left get_db. next is the seed table whose executemany comes next,
\* one past the last when seed_data has run them all.
IdleRacer == [pc |-> "idle", next |-> 0]

\* The pcs at which a call holds a connection in a local variable.
HoldingPcs == {"create", "count", "seed", "handler"}

\* seed_data: the tables in the order of their executemany statements.
SeedTables == <<"intake_requests", "backlog_items", "impact_metrics", "prompt_versions",
                "audit_log", "qa_checks">>

SeedRows(table) ==
    CASE table = "intake_requests" -> SeedIntakeRequests
      [] table = "backlog_items" -> SeedBacklogItems
      [] table = "impact_metrics" -> SeedImpactMetrics
      [] table = "prompt_versions" -> SeedPromptVersions
      [] table = "audit_log" -> SeedAuditLog
      [] table = "qa_checks" -> SeedQaChecks

\* The rows of every table, by table name.
Tables ==
    [intake_requests |-> intake_requests, backlog_items |-> backlog_items,
     impact_metrics |-> impact_metrics, prompt_versions |-> prompt_versions,
     audit_log |-> audit_log, qa_checks |-> qa_checks]

\* The primary key: executemany raises when a row's id is already stored, and
\* then stores none of its rows.
Insertable(table, rows) == Ids(Tables[table]) \cap Ids(rows) = {}

\* tables' is Tables with rows added to table.
InsertInto(table, rows) ==
    /\ intake_requests' = IF table = "intake_requests" THEN intake_requests \cup rows
                          ELSE intake_requests
    /\ backlog_items' = IF table = "backlog_items" THEN backlog_items \cup rows ELSE backlog_items
    /\ impact_metrics' = IF table = "impact_metrics" THEN impact_metrics \cup rows
                         ELSE impact_metrics
    /\ prompt_versions' = IF table = "prompt_versions" THEN prompt_versions \cup rows
                          ELSE prompt_versions
    /\ audit_log' = IF table = "audit_log" THEN audit_log \cup rows ELSE audit_log
    /\ qa_checks' = IF table = "qa_checks" THEN qa_checks \cup rows ELSE qa_checks

\* What a step of get_db leaves alone.
outsideGetDb == <<webVars, labVars, agentVars, relevanceVars, parseVars>>

SetRacer(t, pc, next) == racers' = [racers EXCEPT ![t] = [pc |-> pc, next |-> next]]

\* Mutant of FirstStep: get_db does not test the flag.
FirstStepInitialize(initialized) == "initialize"

\* if not _db_initialized: initialize_database() ...; return duckdb.connect(DB_PATH)
FirstStep(initialized) == IF initialized THEN "connect" ELSE "initialize"

\* A handler calls get_db: if not _db_initialized
GetDbBegin(t) ==
    /\ racers[t].pc = "idle"
    /\ intake.pc = "idle"
    /\ SetRacer(t, FirstStep(db_initialized), 0)
    /\ UNCHANGED <<dbVars, readOnlyVars, db_initialized, tables_created, open_connections>>
    /\ UNCHANGED outsideGetDb

\* initialize_database: con = get_connection(db_path)
InitConnect(t) ==
    /\ racers[t].pc = "initialize"
    /\ CanOpen
    /\ open_connections' = open_connections + 1
    /\ SetRacer(t, "create", 0)
    /\ UNCHANGED <<dbVars, readOnlyVars, db_initialized, tables_created>>
    /\ UNCHANGED outsideGetDb

\* create_tables(con): six CREATE TABLE IF NOT EXISTS
CreateTables(t) ==
    /\ racers[t].pc = "create"
    /\ tables_created' = TRUE
    /\ SetRacer(t, "count", 0)
    /\ UNCHANGED <<dbVars, readOnlyVars, db_initialized, open_connections>>
    /\ UNCHANGED outsideGetDb

\* Mutant of AlreadySeeded: the guard never holds.
AlreadySeededNever(count) == FALSE

\* if count > 0: return  # Already seeded
AlreadySeeded(count) == count > 0

\* seed_data: count = SELECT COUNT(*) FROM intake_requests; if count > 0: return
SeedCount(t) ==
    /\ racers[t].pc = "count"
    /\ IF AlreadySeeded(Cardinality(intake_requests))
         THEN SetRacer(t, "set_flag", 0)
         ELSE SetRacer(t, "seed", 1)
    /\ UNCHANGED <<dbVars, readOnlyVars, db_initialized, tables_created, open_connections>>
    /\ UNCHANGED outsideGetDb

\* seed_data: the next con.executemany(INSERT ...); a primary-key violation
\* raises out of get_db, which leaves the flag unset and the connection open.
SeedInsert(t) ==
    /\ racers[t].pc = "seed"
    /\ LET table == SeedTables[racers[t].next]
       IN IF Insertable(table, SeedRows(table))
            THEN /\ InsertInto(table, SeedRows(table))
                 /\ IF racers[t].next = Len(SeedTables)
                      THEN SetRacer(t, "set_flag", Len(SeedTables) + 1)
                      ELSE SetRacer(t, "seed", racers[t].next + 1)
            ELSE /\ SetRacer(t, "failed", 0)
                 /\ UNCHANGED <<dbVars, readOnlyVars>>
    /\ UNCHANGED <<db_initialized, tables_created, open_connections>>
    /\ UNCHANGED outsideGetDb

\* seed_data: the next con.executemany raises for a reason of the database (the
\* disk is full, the file cannot be written): the statements before it have
\* committed, the exception leaves get_db with the flag unset.
SeedFault(t) ==
    /\ racers[t].pc = "seed"
    /\ SetRacer(t, "failed", 0)
    /\ UNCHANGED <<dbVars, readOnlyVars, db_initialized, tables_created, open_connections>>
    /\ UNCHANGED outsideGetDb

\* initialize_database() has returned, its connection is dropped unclosed;
\* _db_initialized = True
SetFlag(t) ==
    /\ racers[t].pc = "set_flag"
    /\ db_initialized' = TRUE
    /\ SetRacer(t, "connect", 0)
    /\ UNCHANGED <<dbVars, readOnlyVars, tables_created, open_connections>>
    /\ UNCHANGED outsideGetDb

\* return duckdb.connect(DB_PATH)
GetDbConnect(t) ==
    /\ racers[t].pc = "connect"
    /\ CanOpen
    /\ open_connections' = open_connections + 1
    /\ SetRacer(t, "handler", 0)
    /\ UNCHANGED <<dbVars, readOnlyVars, db_initialized, tables_created>>
    /\ UNCHANGED outsideGetDb

\* The handler that called get_db runs its statements, closes the connection
\* and returns; or its except clause has rendered the fault.
RacerEnd(t) ==
    /\ racers[t].pc \in {"handler", "failed"}
    /\ open_connections' = IF racers[t].pc = "handler" THEN open_connections - 1
                           ELSE open_connections
    /\ SetRacer(t, "idle", 0)
    /\ UNCHANGED <<dbVars, readOnlyVars, db_initialized, tables_created>>
    /\ UNCHANGED outsideGetDb

\* One call after another: get_db is entered only when no other call is inside.
SeqGetDbBegin(t) ==
    /\ \A u \in Racers : racers[u].pc = "idle"
    /\ GetDbBegin(t)

\* A submission to a process whose get_db has initialized the database.
SeededIntakeBegin(form) ==
    /\ db_initialized
    /\ \A t \in Racers : racers[t].pc = "idle"
    /\ IntakeBegin(form)

\* The process is started again (uvicorn reload): the module is loaded anew, so
\* the flag is False again; the database file stays.
Restart ==
    /\ \A t \in Racers : racers[t].pc = "idle"
    /\ intake.pc = "idle"
    /\ db_initialized
    /\ db_initialized' = FALSE
    /\ open_connections' = 0
    /\ UNCHANGED <<dbVars, readOnlyVars, tables_created, racers>>
    /\ UNCHANGED outsideGetDb

\* ------------------------------------------------------------------ POST /backlog/update

\* Form fields of POST /backlog/update: any strings.
ItemIdInputs == {"BLG-007", "BLG-404", GenId("BLG", 1)}
StatusInputs == {"Deployed", "Archived"}

\* The status the UPDATE statement stores for new_status.
StoredStatus(new_status) == new_status

\* Mutant of Matches: the UPDATE has no WHERE clause.
MatchesEveryRow(r, item_id) == TRUE

\* WHERE id = ?
Matches(r, item_id) == r.id = item_id

\* now = datetime.now(); UPDATE backlog_items SET status = ?, updated_at = ? WHERE id = ?
BacklogUpdate(item_id, new_status, now, fault) ==
    /\ intake.pc = "idle"
    /\ IF fault
         THEN /\ CanOpen
              /\ open_connections' = open_connections + 1
              /\ response' = JsonResponse("POST /backlog/update", 500, FALSE)
              /\ page' = JSONResponse("POST /backlog/update",
                                      [success |-> FALSE, error |-> ErrorText("exception")],
                                      500, 0)
              /\ UNCHANGED backlog_items
         ELSE /\ backlog_items' =
                    { IF Matches(r, item_id)
                        THEN [r EXCEPT !.status = StoredStatus(new_status), !.updated_at = now]
                        ELSE r : r \in backlog_items }
              /\ response' = JsonResponse("POST /backlog/update", 200, TRUE)
              /\ page' = JSONResponse("POST /backlog/update", [success |-> TRUE], 200, 0)
              /\ UNCHANGED open_connections
    /\ board' = NoBoard
    /\ UNCHANGED outsideWeb
    /\ UNCHANGED <<intake_requests, prompt_versions, intake>>

\* ------------------------------------------------------------------ GET /backlog

\* Query parameters of GET /backlog; "" is the absent filter.
TeamFilters == {"", "RevOps", "Sales (SDR)"}
StatusFilters == {"", "Intake", "Archived"}

\* SELECT * FROM backlog_items [WHERE requester_team = ? [AND status = ?]]
BoardItems(team, status) ==
    { r \in backlog_items :
        /\ (team # "" => r.requester_team = team)
        /\ (status # "" => r.status = status) }

\* for item in items: col = item.get("status", "Intake"); if col in columns: ...
BoardColumns(items) ==
    [ col \in KanbanLabels |-> { r \in items : r.status = col } ]

\* SELECT DISTINCT requester_team FROM backlog_items ORDER BY requester_team
BoardTeams == { r.requester_team : r \in backlog_items }

\* A page handler's connection: fault 0 is no fault, fault 1 is get_db raising
\* (no connection), fault k + 1 the k-th statement raising, which skips con.close().
ConnectionsAfter(fault) == IF fault >= 2 THEN open_connections + 1 ELSE open_connections

BacklogPage(team, status, fault) ==
    /\ intake.pc = "idle"
    /\ fault >= 2 => CanOpen
    /\ open_connections' = ConnectionsAfter(fault)
    /\ IF fault = 0
         THEN LET items == BoardItems(team, status)
              IN /\ board' = [rendered |-> TRUE, team |-> team, status |-> status,
                              items |-> items, columns |-> BoardColumns(items),
                              total_items |-> Cardinality(items)]
                 /\ page' = TemplateResponse("GET /backlog", "backlog.html",
                                BacklogContext(team, status, items, BoardColumns(items),
                                               BoardTeams))
                 /\ response' = OkPage("GET /backlog")
         ELSE /\ board' = NoBoard
              /\ page' = TemplateResponse("GET /backlog", "backlog.html",
                                          BacklogError("exception"))
              /\ response' = ErrorPage("GET /backlog")
    /\ UNCHANGED <<dbVars, intake>>
    /\ UNCHANGED outsideWeb

\* ------------------------------------------------------------------ POST /builder/{request_id}/prompt-lab

\* The prompt-lab calls that may be in progress at once.
Calls == 1..MaxCalls

\* Path parameter request_id: a seeded request holding versions 1 and 2, a seeded
\* request holding none, and an id that is in no table.
LabRequestInputs == {"REQ-001", "REQ-003", "REQ-404"}

NoResult == [success |-> FALSE, status_code |-> 0, version |-> 0]

IdleCall == [pc |-> "idle", request_id |-> "", new_ver |-> 0, result |-> NoResult]

VersionsOf(rows, request_id) == { p.version : p \in { q \in rows : q.request_id = request_id } }

\* SELECT COALESCE(MAX(version), 0) FROM prompt_versions WHERE request_id = ?
MaxVersion(rows, request_id) ==
    LET vs == VersionsOf(rows, request_id)
    IN IF vs = {} THEN 0 ELSE CHOOSE v \in vs : \A w \in vs : w <= v

\* Mutant of NewVersion: the maximum is stored again.
NewVersionReused(max_ver) == IF max_ver = 0 THEN 1 ELSE max_ver

\* new_ver = max_ver + 1
NewVersion(max_ver) == max_ver + 1

\* The except clause: JSONResponse({"success": False, ...}, status_code=500);
\* the connection, when one was opened, is not closed.
LabFail(c) ==
    lab' = [lab EXCEPT ![c] = [@ EXCEPT !.pc = "done",
                                        !.result = [success |-> FALSE, status_code |-> 500,
                                                    version |-> 0]]]

\* con = get_db(); max_ver = SELECT ...; new_ver = max_ver + 1
LabBegin(c, request_id, fault) ==
    /\ lab[c].pc = "idle"
    /\ CanOpen
    /\ open_connections' = open_connections + 1
    /\ IF fault
         THEN LabFail(c)
         ELSE lab' = [lab EXCEPT ![c] =
                        [IdleCall EXCEPT !.pc = "llm", !.request_id = request_id,
                                         !.new_ver = NewVersion(MaxVersion(prompt_versions, request_id))]]
    /\ UNCHANGED prompt_versions
    /\ UNCHANGED outsideLab

\* raw = agent._call_llm(...): the handler waits for the LLM; _call_llm returns
\* text or None and the handler substitutes the mock response text for None.
LabCallLlm(c) ==
    /\ lab[c].pc = "llm"
    /\ lab' = [lab EXCEPT ![c].pc = "insert"]
    /\ UNCHANGED <<prompt_versions, open_connections>>
    /\ UNCHANGED outsideLab

\* Mutant of References: the column is declared without REFERENCES.
ReferencesNothing(request_id) == TRUE

\* request_id VARCHAR REFERENCES intake_requests(id)
References(request_id) == request_id \in Ids(intake_requests)

\* pv_id = PV-<uuid>; INSERT INTO prompt_versions (primary key on id, foreign key
\* on request_id, no constraint on version); con.close(); the JSON response.
LabInsert(c, pv_id, fault) ==
    /\ lab[c].pc = "insert"
    /\ IF \/ fault
          \/ pv_id \in Ids(prompt_versions)
          \/ ~References(lab[c].request_id)
         THEN /\ LabFail(c)
              /\ UNCHANGED <<prompt_versions, open_connections>>
         ELSE /\ open_connections' = open_connections - 1
              /\ prompt_versions' = prompt_versions \cup
                    {[id |-> pv_id, request_id |-> lab[c].request_id, version |-> lab[c].new_ver]}
              /\ lab' = [lab EXCEPT ![c] = [@ EXCEPT !.pc = "done",
                                                     !.result = [success |-> TRUE, status_code |-> 200,
                                                                 version |-> lab[c].new_ver]]]
    /\ UNCHANGED outsideLab

\* The response has been sent; the next request may come in.
LabEnd(c) ==
    /\ lab[c].pc = "done"
    /\ lab' = [lab EXCEPT ![c] = IdleCall]
    /\ UNCHANGED <<prompt_versions, open_connections>>
    /\ UNCHANGED outsideLab

\* One call after another: a call begins only when no other call is in progress.
SeqLabBegin(c, request_id, fault) ==
    /\ \A d \in Calls : lab[d].pc = "idle"
    /\ LabBegin(c, request_id, fault)

\* ------------------------------------------------------------------ page routes

\* What a handler that is not POST /intake, GET /backlog or the prompt lab leaves
\* alone.
outsidePages == <<labVars, agentVars, relevanceVars, parseVars, readOnlyVars, initVars>>

\* The statements of each page handler, in order: get_db(), then its queries.
OverviewFaults == 0..9
IntakePageFaults == 0..2
BacklogFaults == 0..3
BuilderFaults == 0..3
GenerateFaults == 0..2
GovernanceFaults == 0..8
ImpactFaults == 0..6

\* Path parameter request_id: a seeded request, an id in no table, and the id a
\* submission may have stored.
BuilderInputs == {"REQ-001", "REQ-404", GenId("REQ", 1)}

\* A page handler that reads the database and renders one template.
RenderPage(route, template, fault, context, error_context) ==
    /\ intake.pc = "idle"
    /\ fault >= 2 => CanOpen
    /\ open_connections' = ConnectionsAfter(fault)
    /\ page' = TemplateResponse(route, template, IF fault = 0 THEN context ELSE error_context)
    /\ response' = IF fault = 0 THEN OkPage(route) ELSE ErrorPage(route)
    /\ board' = NoBoard
    /\ UNCHANGED <<dbVars, intake>>
    /\ UNCHANGED outsidePages

\* @app.get("/")
Overview(fault) ==
    /\ fault \in OverviewFaults
    /\ RenderPage("GET /", "index.html", fault, OverviewContext, OverviewError("exception"))

\* @app.get("/intake")
IntakePage(fault) ==
    /\ fault \in IntakePageFaults
    /\ RenderPage("GET /intake", "intake.html", fault, IntakePageContext,
                  IntakePageError("exception"))

\* @app.get("/governance")
GovernancePage(fault) ==
    /\ fault \in GovernanceFaults
    /\ RenderPage("GET /governance", "governance.html", fault, GovernanceContext,
                  GovernanceError("exception"))

\* @app.get("/impact")
ImpactPage(fault) ==
    /\ fault \in ImpactFaults
    /\ RenderPage("GET /impact", "impact.html", fault, ImpactContext, ImpactError("exception"))

\* Mutant of RequestRows: the query has no WHERE clause.
RequestRowsOfAnyId(request_id) == intake_requests

\* SELECT * FROM intake_requests WHERE id = ?
RequestRows(request_id) == { r \in intake_requests : r.id = request_id }

\* @app.get("/builder/{request_id}"): the not-found branch closes the connection
\* and renders before the second query.
BuilderPage(request_id, fault) ==
    /\ intake.pc = "idle"
    /\ fault = 3 => RequestRows(request_id) # {}
    /\ fault >= 2 => CanOpen
    /\ open_connections' = ConnectionsAfter(fault)
    /\ page' = TemplateResponse("GET /builder", "builder.html",
                 IF fault # 0 THEN BuilderError("exception")
                 ELSE IF RequestRows(request_id) = {} THEN BuilderError("Request not found")
                 ELSE BuilderContext(CHOOSE r \in RequestRows(request_id) : TRUE))
    /\ response' = IF fault = 0 /\ RequestRows(request_id) # {}
                     THEN OkPage("GET /builder") ELSE ErrorPage("GET /builder")
    /\ board' = NoBoard
    /\ UNCHANGED <<dbVars, intake>>
    /\ UNCHANGED outsidePages

\* @app.post("/builder/{request_id}/generate"): the connection is closed before
\* agent.generate_blueprint, which makes the LLM call and may raise.
BuilderGenerate(request_id, fault, raises) ==
    /\ intake.pc = "idle"
    /\ fault >= 2 => CanOpen
    /\ open_connections' = ConnectionsAfter(fault)
    /\ (fault # 0 \/ RequestRows(request_id) = {}) => ~raises
    /\ page' =
         IF fault # 0
           THEN JSONResponse("POST /builder/generate",
                             [success |-> FALSE, error |-> ErrorText("exception")], 500, 0)
         ELSE IF RequestRows(request_id) = {}
           THEN JSONResponse("POST /builder/generate",
                             [success |-> FALSE, error |-> PyStr("Request not found")], 404, 0)
         ELSE IF raises
           THEN JSONResponse("POST /builder/generate",
                             [success |-> FALSE, error |-> ErrorText("exception")], 500, 1)
         ELSE JSONResponse("POST /builder/generate",
                           [success |-> TRUE, blueprint |-> PyDict(EmptyItems)], 200, 1)
    /\ response' = JsonResponse("POST /builder/generate", page'.status_code,
                                page'.status_code = 200)
    /\ board' = NoBoard
    /\ UNCHANGED <<dbVars, intake>>
    /\ UNCHANGED outsidePages

\* One handler at a time: a submission begins when no prompt-lab call is in
\* progress, and a prompt-lab call when no submission is.
AppIntakeBegin(form) ==
    /\ \A c \in Calls : lab[c].pc = "idle"
    /\ IntakeBegin(form)

AppLabBegin(c, request_id, fault) ==
    /\ intake.pc = "idle"
    /\ SeqLabBegin(c, request_id, fault)

\* The connections the handlers in progress hold in a local variable.
HeldConnections ==
    (IF intake.pc \in {"insert_request", "insert_backlog", "respond"} THEN 1 ELSE 0)
    + Cardinality({ c \in Calls : lab[c].pc \in {"llm", "insert"} })
    + Cardinality({ t \in Racers : racers[t].pc \in HoldingPcs })

\* The interpreter finalizes the connection objects no handler refers to any
\* more, which closes them; when it does so is not fixed by the program.
Finalize ==
    /\ open_connections > HeldConnections
    /\ open_connections' = HeldConnections
    /\ response' = NoResponse
    /\ board' = NoBoard
    /\ page' = NoPage
    /\ UNCHANGED <<dbVars, intake>>
    /\ UNCHANGED outsidePages

\* ------------------------------------------------------------------ text and JSON (agent.py)

\* A text is a sequence of lexemes. "a:" is the member prefix "a": of an object,
\* "1" and "0" digits, "s" and "e" a non-empty and the empty string literal, "x"
\* a word that is not JSON, "FENCE" the code-fence marker ```; a string literal holds no
\* brace, fence or newline.
Whitespace == {" ", "\n"}

\* str.strip(): leading and trailing whitespace removed.
RECURSIVE LStrip(_)
LStrip(t) == IF t # <<>> /\ Head(t) \in Whitespace THEN LStrip(Tail(t)) ELSE t

RECURSIVE RStrip(_)
RStrip(t) ==
    IF t # <<>> /\ t[Len(t)] \in Whitespace THEN RStrip(SubSeq(t, 1, Len(t) - 1)) ELSE t

Strip(t) == RStrip(LStrip(t))

\* str.split("\n"): the lines of t, at least one.
RECURSIVE SplitLines(_)
SplitLines(t) ==
    IF \E i \in DOMAIN t : t[i] = "\n"
      THEN LET i == CHOOSE j \in DOMAIN t : t[j] = "\n" /\ \A h \in 1..(j - 1) : t[h] # "\n"
           IN <<SubSeq(t, 1, i - 1)>> \o SplitLines(SubSeq(t, i + 1, Len(t)))
      ELSE <<t>>

\* "\n".join(lines)
RECURSIVE JoinLines(_)
JoinLines(lines) ==
    IF lines = <<>> THEN <<>>
    ELSE IF Len(lines) = 1 THEN lines[1]
    ELSE lines[1] \o <<"\n">> \o JoinLines(Tail(lines))

\* l.strip().startswith("```")
IsFenceLine(l) == Strip(l) # <<>> /\ Head(Strip(l)) = "FENCE"

\* [l for l in lines if not l.strip().startswith("```")]
RECURSIVE DropFenceLines(_)
DropFenceLines(lines) ==
    IF lines = <<>> THEN <<>>
    ELSE IF IsFenceLine(Head(lines)) THEN DropFenceLines(Tail(lines))
    ELSE <<Head(lines)>> \o DropFenceLines(Tail(lines))

\* cleaned = text.strip(); if cleaned.startswith("```"): drop the fence lines
Cleaned(text) ==
    LET c == Strip(text)
    IN IF c # <<>> /\ Head(c) = "FENCE" THEN JoinLines(DropFenceLines(SplitLines(c))) ELSE c

\* The JSON decoder: a result is [ok, val, rest, exc]; exc names what it raises
\* when ok is FALSE.
Failed == [ok |-> FALSE, val |-> PyNone, rest |-> <<>>, exc |-> "JSONDecodeError"]
TooDeep == [ok |-> FALSE, val |-> PyNone, rest |-> <<>>, exc |-> "RecursionError"]
Parsed(val, rest) == [ok |-> TRUE, val |-> val, rest |-> rest, exc |-> ""]

Scalars == {"s", "e", "true", "false", "null"}

ScalarValue(tok) ==
    CASE tok = "s" -> PyStr("x")
      [] tok = "e" -> PyStr("")
      [] tok = "true" -> PyBool(TRUE)
      [] tok = "false" -> PyBool(FALSE)
      [] tok = "null" -> PyNone

Digits == {"0", "1"}

DigitValue(tok) == IF tok = "1" THEN 1 ELSE 0

\* The digits after a leading "1": the number read so far, and the rest.
RECURSIVE ParseDigits(_, _)
ParseDigits(t, n) ==
    IF t # <<>> /\ Head(t) \in Digits
      THEN ParseDigits(Tail(t), 10 * n + DigitValue(Head(t)))
      ELSE [ok |-> TRUE, val |-> PyNum(n), rest |-> t, exc |-> ""]

KeyTokens == {"a:"}
KeyOf(tok) == "a"

RECURSIVE ParseValue(_, _), ParseMembers(_, _, _), ParseElements(_, _, _)

\* One JSON value at the head of t, after optional whitespace, inside depth
\* arrays and objects.
ParseValue(t, depth) ==
    LET u == LStrip(t)
    IN IF u = <<>> THEN Failed
       ELSE IF Head(u) \in Scalars THEN Parsed(ScalarValue(Head(u)), Tail(u))
       ELSE IF Head(u) = "0" THEN Parsed(PyNum(0), Tail(u))
       ELSE IF Head(u) = "1" THEN ParseDigits(Tail(u), 1)
       ELSE IF Head(u) \in {"{", "["} /\ depth >= MaxNesting THEN TooDeep
       ELSE IF Head(u) = "{"
         THEN LET v == LStrip(Tail(u))
              IN IF v # <<>> /\ Head(v) = "}" THEN Parsed(PyDict(EmptyItems), Tail(v))
                 ELSE ParseMembers(v, EmptyItems, depth + 1)
       ELSE IF Head(u) = "["
         THEN LET v == LStrip(Tail(u))
              IN IF v # <<>> /\ Head(v) = "]" THEN Parsed(PyList(<<>>), Tail(v))
                 ELSE ParseElements(v, <<>>, depth + 1)
       ELSE Failed

\* "key": value, then "," and another member, or "}".
ParseMembers(t, items, depth) ==
    LET u == LStrip(t)
    IN IF u = <<>> \/ Head(u) \notin KeyTokens THEN Failed
       ELSE LET r == ParseValue(Tail(u), depth)
                w == LStrip(r.rest)
                got == SetItem(items, KeyOf(Head(u)), r.val)
            IN IF ~r.ok THEN r
               ELSE IF w = <<>> THEN Failed
               ELSE IF Head(w) = "}" THEN Parsed(PyDict(got), Tail(w))
               ELSE IF Head(w) = "," THEN ParseMembers(Tail(w), got, depth)
               ELSE Failed

\* value, then "," and another element, or "]".
ParseElements(t, elems, depth) ==
    LET r == ParseValue(t, depth)
        w == LStrip(r.rest)
    IN IF ~r.ok THEN r
       ELSE IF w = <<>> THEN Failed
       ELSE IF Head(w) = "]" THEN Parsed(PyList(Append(elems, r.val)), Tail(w))
       ELSE IF Head(w) = "," THEN ParseElements(Tail(w), Append(elems, r.val), depth)
       ELSE Failed

\* json.loads(t): ok is FALSE where it raises, exc names the exception.
JsonLoads(t) ==
    LET r == ParseValue(t, 0)
    IN IF ~r.ok THEN r
       ELSE IF LStrip(r.rest) = <<>> THEN r
       ELSE Failed

\* str.find("{"): the first index (from 1), 0 when there is none.
FindFirst(t, tok) ==
    IF \E i \in DOMAIN t : t[i] = tok
      THEN CHOOSE i \in DOMAIN t : t[i] = tok /\ \A j \in 1..(i - 1) : t[j] # tok
      ELSE 0

\* str.rfind("}"): the last index (from 1), 0 when there is none.
FindLast(t, tok) ==
    IF \E i \in DOMAIN t : t[i] = tok
      THEN CHOOSE i \in DOMAIN t : t[i] = tok /\ \A j \in (i + 1)..Len(t) : t[j] # tok
      ELSE 0

\* What the first json.loads of _parse_json yields when it does not raise.
DirectParse(val) == val

\* except json.JSONDecodeError: the one exception the two handlers of _parse_json
\* catch.
Caught(exc) == exc = "JSONDecodeError"

\* The exception _parse_json lets through to its caller, "" when it returns.
ParseRaises(text) ==
    IF text = <<>> THEN ""
    ELSE LET cleaned == Cleaned(text)
             direct == JsonLoads(cleaned)
             start == FindFirst(cleaned, "{")
             end == FindLast(cleaned, "}")
         IN IF direct.ok THEN ""
            ELSE IF ~Caught(direct.exc) THEN direct.exc
            ELSE IF start >= 1 /\ end >= start
              THEN LET inner == JsonLoads(SubSeq(cleaned, start, end))
                   IN IF inner.ok \/ Caught(inner.exc) THEN "" ELSE inner.exc
            ELSE ""

\* GTMOpsAgent._parse_json, where it returns
ParseJson(text) ==
    IF text = <<>> THEN PyNone
    ELSE LET cleaned == Cleaned(text)
             direct == JsonLoads(cleaned)
             start == FindFirst(cleaned, "{")
             end == FindLast(cleaned, "}")
         IN IF direct.ok THEN DirectParse(direct.val)
            ELSE IF start >= 1 /\ end >= start
              THEN LET inner == JsonLoads(SubSeq(cleaned, start, end))
                   IN IF inner.ok THEN inner.val ELSE PyNone
            ELSE PyNone

\* One call of _parse_json: text is the argument (None, or a string), result
\* what it returned, raised the exception it let through.
IdleParse == [pc |-> "idle", text |-> [some |-> FALSE, text |-> <<>>], result |-> PyNone,
              raised |-> ""]

\* self._parse_json(text)
ParseText ==
    /\ parsing.pc = "call"
    /\ LET text == parsing.text.text
           exc == IF parsing.text.some THEN ParseRaises(text) ELSE ""
       IN parsing' =
            IF exc # "" THEN [parsing EXCEPT !.pc = "raised", !.raised = exc]
            ELSE [parsing EXCEPT !.pc = "returned",
                                 !.result = IF parsing.text.some THEN ParseJson(text) ELSE PyNone]
    /\ UNCHANGED <<dbVars, readOnlyVars, getDbVars, webVars, labVars, agentVars, relevanceVars>>

\* ------------------------------------------------------------------ mock payloads (prompts.py)

\* prompts.py: MOCK_TRIAGE_RESPONSE
MOCK_TRIAGE_RESPONSE ==
    [
      gtm_stage |-> PyStr("Pipeline Generation"),
      complexity |-> PyStr("Medium"),
      approach |-> PyStr("AI Agent"),
      priority_score |-> PyNum(7),
      summary |-> PyStr("Automate lead research to reduce SDR time spent per prospect"),
      rationale |-> PyStr("High manual time investment in a critical pipeline stage; AI agent can handle research aggregation effectively") ]

\* prompts.py: MOCK_REQUIREMENTS_RESPONSE
MOCK_REQUIREMENTS_RESPONSE ==
    [
      title |-> PyStr("AI-Powered Lead Research Assistant"),
      problem_statement |-> PyStr("SDRs spend 30+ minutes per lead manually researching company info, recent news, and tech stack before outreach."),
      current_process |-> PyList(<<
          PyStr("SDR receives new lead assignment"),
          PyStr("Manually searches LinkedIn, company website, news"),
          PyStr("Copies relevant info into CRM notes"),
          PyStr("Drafts personalized outreach based on research")>>),
      proposed_solution |-> PyList(<<
          PyStr("AI agent auto-enriches lead data from multiple sources"),
          PyStr("Generates research summary with key talking points"),
          PyStr("Suggests personalized outreach angles"),
          PyStr("Auto-populates CRM fields")>>),
      data_sources |-> PyList(<<
          PyStr("Salesforce"),
          PyStr("ZoomInfo"),
          PyStr("LinkedIn (API)"),
          PyStr("Company websites")>>),
      success_metrics |-> PyList(<<
          PyStr("Reduce research time from 30 min to 5 min per lead"),
          PyStr("Increase outreach personalization score"),
          PyStr("Improve response rates by 15%")>>),
      risks |-> PyList(<<
          PyStr("Data freshness of third-party sources"),
          PyStr("LinkedIn API rate limits"),
          PyStr("PII handling for contact data")>>),
      estimated_effort |-> PyStr("Medium (1-2 weeks)") ]

\* prompts.py: MOCK_BLUEPRINT_RESPONSE
MOCK_BLUEPRINT_RESPONSE ==
    [
      workflow_name |-> PyStr("Automated Lead Research Pipeline"),
      current_state |-> PyList(<<
          PyStr("SDR receives lead notification"),
          PyStr("Opens multiple browser tabs (LinkedIn, company site, news)"),
          PyStr("Manually reads and extracts key information"),
          PyStr("Types notes into Salesforce"),
          PyStr("Drafts email based on research")>>),
      proposed_state |-> PyList(<<
          PyStr("Lead assigned -> triggers AI research agent"),
          PyStr("Agent pulls data from ZoomInfo + company site + news APIs"),
          PyStr("AI generates structured research brief"),
          PyStr("Brief auto-attached to Salesforce record"),
          PyStr("AI suggests 3 personalized outreach angles"),
          PyStr("SDR reviews, selects angle, sends outreach")>>),
      integrations |-> PyList(<<
          PyStr("Salesforce CRM"),
          PyStr("ZoomInfo API"),
          PyStr("News API"),
          PyStr("Email platform (Salesloft)")>>),
      governance |-> PyDict([
          pii_handling |-> PyStr("Contact PII stored only in Salesforce, not cached by AI"),
          escalation_rules |-> PyStr("Flag leads from regulated industries for manual review"),
          data_retention |-> PyStr("Research briefs retained for 90 days")]),
      success_metrics |-> PyList(<<
          PyStr("Time per lead research: 30 min -> 5 min"),
          PyStr("SDR daily lead capacity: 15 -> 40"),
          PyStr("Response rate improvement: baseline + 15%")>>),
      rollout_plan |-> PyList(<<
          PyStr("Week 1: Deploy to 3 pilot SDRs"),
          PyStr("Week 2: Gather feedback, iterate prompts"),
          PyStr("Week 3: Expand to full SDR team"),
          PyStr("Week 4: Measure and report")>>),
      estimated_time_savings |-> PyStr("12.5 hours per SDR per week") ]

\* ------------------------------------------------------------------ GTMOpsAgent (agent.py)

Tasks == {"triage", "requirements", "blueprint", "summary"}

\* The tasks whose raw text goes through _parse_json.
JsonTasks == {"triage", "requirements", "blueprint"}

\* The module-level mock constants of prompts.py as first imported.
InitialMocks ==
    [task \in JsonTasks |->
        CASE task = "triage" -> MOCK_TRIAGE_RESPONSE
          [] task = "requirements" -> MOCK_REQUIREMENTS_RESPONSE
          [] task = "blueprint" -> MOCK_BLUEPRINT_RESPONSE]

\* What the caller passes: the pain point, title or project name.
AgentInputs == {"Acme", "Globex"}

\* generate_executive_summary: the fallback narrative, an f-string over project_name.
SummaryFallback(project_name) ==
    [summary |-> PyStr("**" \o project_name \o
        "** has been deployed and is delivering measurable impact. The automation reduced manual processing time by 75%, freeing up team capacity for higher-value activities. Early adoption metrics show strong engagement across the target user group.\n\nNext steps include expanding to additional teams and refining the AI model based on user feedback collected during the pilot phase.")]

\* max_tokens: int = 800; generate_executive_summary passes max_tokens=600
DefaultMaxTokens == 800
SummaryMaxTokens == 600

\* The request body of _call_llm: system prompt by task, user prompt from the inputs.
Payload(task, input) ==
    [model |-> "meta-llama/Llama-3.2-3B-Instruct", system |-> task, user |-> <<task, input>>,
     max_tokens |-> IF task = "summary" THEN SummaryMaxTokens ELSE DefaultMaxTokens]

\* time.sleep(10)
RetryWaitSeconds == 10

\* The lexemes of the texts enumerated in full up to MaxTextLen.
Alphabet == {"{", "}", "[", "]", ",", "a:", "1", "0", "s", "e", "true", "false", "null",
             "x", " ", "\n", "FENCE"}

ShortTexts == UNION { [1..n -> Alphabet] : n \in 0..MaxTextLen }

\* Longer texts: objects and arrays with members, bare, fenced, and inside noise.
LongTexts ==
    { <<"{", "a:", "1", "}">>,
      <<"{", "a:", "s", ",", "a:", "0", "}">>,
      <<"[", "1", ",", "s", "]">>,
      <<"[", "{", "a:", "1", "}", "]">>,
      <<"FENCE", "x", "\n", "{", "a:", "1", "}", "\n", "FENCE">>,
      <<"FENCE", "\n", "[", "1", "]", "\n", "FENCE">>,
      <<"x", " ", "{", "a:", "1", "}", " ", "x">>,
      <<"x", " ", "{", "a:", "x", "}">>,
      <<" ", "{", "a:", "null", "}", "\n">> }

\* n times the same lexeme.
Repeat(tok, n) == [i \in 1..n |-> tok]

\* 1 inside n arrays.
Nested(n) == Repeat("[", n) \o <<"1">> \o Repeat("]", n)

\* Texts nested as deep as json.loads goes, and one level deeper: an object
\* holding nested arrays (bare, fenced, inside noise), and arrays never closed.
DeepTexts ==
    { <<"{", "a:">> \o Nested(MaxNesting - 1) \o <<"}">>,
      <<"{", "a:">> \o Nested(MaxNesting) \o <<"}">>,
      <<"FENCE", "\n", "{", "a:">> \o Nested(MaxNesting) \o <<"}", "\n", "FENCE">>,
      <<"x", " ", "{", "a:">> \o Nested(MaxNesting) \o <<"}", " ", "x">>,
      <<"x", " ">> \o Repeat("[", MaxNesting + 1),
      Repeat("[", MaxNesting + 1) }

\* The message contents the LLM may answer with.
Texts == ShortTexts \cup LongTexts \cup DeepTexts

\* Optional[str]
NoText == [some |-> FALSE, text |-> <<>>]
SomeText(t) == [some |-> TRUE, text |-> t]

\* What requests.post yields: an exception, or a response with a status and, for
\* status 200, a body of one of these shapes.
BodyShapes == {"not_json", "no_choices", "empty_choices", "no_message", "no_content",
               "null_content", "number_content", "text"}

FaultResponse == [fault |-> TRUE, status |-> 0, shape |-> "none", content |-> <<>>]

StatusResponse(status) == [fault |-> FALSE, status |-> status, shape |-> "none", content |-> <<>>]

OkResponse(shape, content) == [fault |-> FALSE, status |-> 200, shape |-> shape, content |-> content]

Responses ==
    {FaultResponse}
    \cup { StatusResponse(status) : status \in {503, 500, 401} }
    \cup { OkResponse(shape, <<>>) : shape \in BodyShapes \ {"text"} }
    \cup { OkResponse("text", t) : t \in Texts }

\* data = resp.json(); if "choices" in data and len(data["choices"]) > 0:
\*     return data["choices"][0].get("message", {}).get("content", "").strip()
\* exc names the exception raised on the way, "" for none; a body without usable
\* choices falls through to "return None".
ExtractContent(resp) ==
    CASE resp.shape = "not_json" -> [exc |-> "JSONDecodeError", value |-> NoText]
      [] resp.shape \in {"no_choices", "empty_choices"} -> [exc |-> "", value |-> NoText]
      [] resp.shape \in {"no_message", "no_content"} -> [exc |-> "", value |-> SomeText(<<>>)]
      [] resp.shape \in {"null_content", "number_content"} ->
             [exc |-> "AttributeError", value |-> NoText]
      [] resp.shape = "text" -> [exc |-> "", value |-> SomeText(Strip(resp.content))]

\* A handler for request errors only: except requests.RequestException.
ExceptCatchesRequestErrors(exc) == exc = "RequestException"

\* except Exception as exc: every exception raised inside the try is caught.
ExceptCatches(exc) == TRUE

\* A retry on every server error.
IsRetriedServerError(status) == status >= 500

\* elif resp.status_code == 503: the statuses that are retried.
IsRetried(status) == status = 503

\* The second requests.post is given the payload of the first.
RetryPayload(payload) == payload

IdleAgent ==
    [pc |-> "idle", task |-> "none", input |-> "", now |-> 0, start |-> 0, log |-> <<>>,
     resps |-> <<>>, raw |-> NoText, result |-> PyNone, raised |-> ""]

PostEvent(payload) == [ev |-> "post", payload |-> payload, seconds |-> 0]
SleepEvent(seconds) == [ev |-> "sleep", payload |-> Payload("none", ""), seconds |-> seconds]

\* A task operation is entered: start = time.time(); the prompt is built.
AgentBegin(task, input) ==
    /\ agent.pc = "idle"
    /\ agent' = [IdleAgent EXCEPT !.pc = "llm", !.task = task, !.input = input,
                                  !.start = agent.now, !.now = agent.now]
    /\ UNCHANGED <<hf_token, mock_globals, mock_summaries>>
    /\ UNCHANGED outsideAgent

\* _call_llm returns value; the task operation goes on.
LlmReturns(a, value) == [a EXCEPT !.pc = "parse", !.raw = value]

\* _call_llm raises, and so does the task operation, which has no handler. The
\* field raised names where the exception came from, "" for no exception.
LlmRaises(a) == [a EXCEPT !.pc = "done", !.raised = "_call_llm"]

\* What _call_llm does with the response resp, given that status 503 on the first
\* request has been dealt with.
AfterResponse(a, resp) ==
    IF resp.fault
      THEN IF ExceptCatches("RequestException") THEN LlmReturns(a, NoText) ELSE LlmRaises(a)
    ELSE IF resp.status = 200
      THEN LET got == ExtractContent(resp)
           IN IF got.exc = "" THEN LlmReturns(a, got.value)
              ELSE IF ExceptCatches(got.exc) THEN LlmReturns(a, NoText)
              ELSE LlmRaises(a)
    ELSE LlmReturns(a, NoText)

\* if not self.hf_token: return None
LlmNoToken ==
    /\ agent.pc = "llm"
    /\ ~hf_token
    /\ agent' = LlmReturns(agent, NoText)
    /\ UNCHANGED <<hf_token, mock_globals, mock_summaries>>
    /\ UNCHANGED outsideAgent

\* resp = requests.post(...) and the branch on its status.
LlmPost(resp) ==
    /\ agent.pc = "llm"
    /\ hf_token
    /\ LET sent == [agent EXCEPT !.log = Append(@, PostEvent(Payload(agent.task, agent.input))),
                                 !.resps = Append(@, resp)]
       IN agent' = IF ~resp.fault /\ IsRetried(resp.status)
                     THEN [sent EXCEPT !.pc = "retry"]
                     ELSE AfterResponse(sent, resp)
    /\ UNCHANGED <<hf_token, mock_globals, mock_summaries>>
    /\ UNCHANGED outsideAgent

\* time.sleep(10); resp = requests.post(...) again; no further branch on 503.
LlmRetry(resp) ==
    /\ agent.pc = "retry"
    /\ LET first == agent.log[1].payload
           sent == [agent EXCEPT !.log = @ \o <<SleepEvent(RetryWaitSeconds),
                                                 PostEvent(RetryPayload(first))>>,
                                 !.resps = Append(@, resp),
                                 !.now = @ + 1000 * RetryWaitSeconds]
       IN agent' = AfterResponse(sent, resp)
    /\ UNCHANGED <<hf_token, mock_globals, mock_summaries>>
    /\ UNCHANGED outsideAgent

\* parsed = self._parse_json(raw) if raw else None
ParsedOf(raw) == IF raw.some /\ raw.text # <<>> THEN ParseJson(raw.text) ELSE PyNone

\* result = MOCK_..._RESPONSE, without the copy.
MockBindingAlias(task) == "global"

\* result = dict(MOCK_..._RESPONSE): which object the name result is bound to, a
\* new dict ("copy") or the module-level constant itself ("global").
MockBinding(task) == "copy"

\* result["_latency_ms"] = round((time.time() - start) * 1000)
LatencyMs(start, now) == now - start

Tagged(items, source, latency) ==
    SetItem(SetItem(items, "_source", PyStr(source)), "_latency_ms", PyNum(latency))

\* The rest of a task operation after _call_llm has returned; the clock has
\* advanced by d milliseconds since.
AgentFinish(d) ==
    /\ agent.pc = "parse"
    /\ LET now == agent.now + d
           latency == LatencyMs(agent.start, now)
           parsed == ParsedOf(agent.raw)
           done == [agent EXCEPT !.pc = "done", !.now = now]
       IN IF agent.task = "summary"
            THEN IF agent.raw.some /\ agent.raw.text # <<>>
                   THEN /\ agent' = [done EXCEPT !.result =
                               PyDict(Tagged([summary |-> [type |-> "str", text |-> agent.raw.text]],
                                             "llm", latency))]
                        /\ UNCHANGED <<mock_globals, mock_summaries>>
                   ELSE /\ agent' = [done EXCEPT !.result =
                               PyDict(Tagged(SummaryFallback(agent.input), "mock", latency))]
                        /\ mock_summaries' = IF hf_token THEN mock_summaries
                                             ELSE mock_summaries \cup {SummaryFallback(agent.input)}
                        /\ UNCHANGED mock_globals
          ELSE IF agent.raw.some /\ ParseRaises(agent.raw.text) # ""
            THEN \* _parse_json is called outside any try block
                 /\ agent' = [done EXCEPT !.raised = ParseRaises(agent.raw.text)]
                 /\ UNCHANGED <<mock_globals, mock_summaries>>
          ELSE IF Truthy(parsed)
            THEN \* result = parsed; result["_source"] = "llm": item assignment
                 \* raises TypeError on anything but a dict (a list takes integer
                 \* indices only)
                 /\ agent' = IF parsed.type = "dict"
                               THEN [done EXCEPT !.result = PyDict(Tagged(parsed.items, "llm", latency))]
                               ELSE [done EXCEPT !.raised = "TypeError"]
                 /\ UNCHANGED <<mock_globals, mock_summaries>>
          ELSE LET tagged == Tagged(mock_globals[agent.task], "mock", latency)
               IN /\ agent' = [done EXCEPT !.result = PyDict(tagged)]
                  /\ mock_globals' = IF MockBinding(agent.task) = "global"
                                       THEN [mock_globals EXCEPT ![agent.task] = tagged]
                                       ELSE mock_globals
                  /\ UNCHANGED mock_summaries
    /\ UNCHANGED hf_token
    /\ UNCHANGED outsideAgent

\* The caller has the result (or the exception); the clock is read relative to
\* the end of the call from here on.
AgentEnd ==
    /\ agent.pc = "done"
    /\ agent' = IdleAgent
    /\ UNCHANGED <<hf_token, mock_globals, mock_summaries>>
    /\ UNCHANGED outsideAgent

\* ------------------------------------------------------------------ RelevanceAgentHandler (relevance_handler.py)

\* os.getenv gives None or a string; None and "" are both false for all([...]);
\* "" stands for either.
Absent == ""

\* RELEVANCE_PROJECT_ID, RELEVANCE_API_KEY, RELEVANCE_AGENT_ID as read at construction.
RelevanceConfigs ==
    [project_id : {Absent, "proj"}, api_key : {Absent, "key"}, agent_id : {Absent, "agent-env"}]

\* The agent_id argument of chat_with_agent.
AgentIdInputs == {Absent, "agent-1"}

\* for _ in range(30)
PollAttempts == 30

\* time.sleep(2)
PollSleepSeconds == 2

\* One more iteration than range(30) has.
InRangeInclusive(attempts) == attempts <= PollAttempts

\* for _ in range(30): whether an iteration follows attempts completed ones.
InRange(attempts) == attempts < PollAttempts

\* The "updates" entries of a poll body: a type and, unless NoOutput, an output.
NoOutput == [type |-> "missing"]

Update(type, output) == [type |-> type, output |-> output]

\* An entry of "updates" that is not an object (a string, a number, null).
NotAnObject == [type |-> "not-an-object", output |-> NoOutput]

UpdateTypes == {"chain-success", "agent-step", "chain-failed", "log"}

Answer(s) == SetItem(EmptyItems, "answer", PyStr(s))

Outputs ==
    { PyDict(Answer("A")),
      PyDict(SetItem(EmptyItems, "text", PyStr("T"))),
      PyDict(SetItem(Answer("A"), "text", PyStr("T"))),
      PyDict(SetItem(EmptyItems, "output", PyDict(Answer("N")))),
      PyDict(SetItem(EmptyItems, "output", PyDict(EmptyItems))),
      PyDict(SetItem(EmptyItems, "output", PyStr("answer"))),
      PyNone }

Updates ==
    { Update(type, NoOutput) : type \in UpdateTypes }
    \cup { Update(type, PyDict(Answer("A"))) : type \in {"agent-step", "log"} }
    \cup { Update("chain-success", output) : output \in Outputs }
    \cup {NotAnObject}

\* Longer lists: an answer before and after a failed chain, steps without an
\* answer, an answer older than a final update without one, a failed chain with a
\* step whose output is null, and two answers.
LongUpdateLists ==
    { <<Update("agent-step", PyDict(Answer("A"))), Update("chain-failed", NoOutput)>>,
      <<Update("chain-failed", NoOutput), Update("agent-step", PyDict(Answer("A")))>>,
      <<Update("log", NoOutput), Update("agent-step", NoOutput)>>,
      <<Update("agent-step", PyDict(Answer("A"))), Update("chain-success", NoOutput)>>,
      <<Update("agent-step", PyDict(Answer("A"))), Update("chain-success", PyNone)>>,
      <<Update("agent-step", PyDict(Answer("A"))), NotAnObject>>,
      <<Update("chain-failed", NoOutput), Update("agent-step", PyNone)>>,
      <<NotAnObject, Update("agent-step", PyDict(Answer("A")))>>,
      <<Update("chain-success", PyDict(SetItem(EmptyItems, "text", PyStr("T")))),
        Update("agent-step", PyDict(Answer("A")))>>,
      <<Update("chain-success", PyDict(Answer("A"))), Update("log", NoOutput),
        Update("chain-success", PyDict(SetItem(EmptyItems, "output", PyDict(Answer("N")))))>> }

UpdateLists == UNION { [1..n -> Updates] : n \in 0..MaxUpdates } \cup LongUpdateLists

\* What requests.post / requests.get yield for the handler: an exception, a
\* status other than 200, or status 200 with a body.
HttpFault == [fault |-> TRUE, status |-> 0, shape |-> "none", updates |-> <<>>]

HttpStatus(status) == [fault |-> FALSE, status |-> status, shape |-> "none", updates |-> <<>>]

HttpOk(shape, updates) == [fault |-> FALSE, status |-> 200, shape |-> shape, updates |-> updates]

\* Trigger bodies: not JSON; a JSON array; an object without job_info; job_info
\* null; job_info with only one of the ids; job_info with both.
TriggerShapes == {"not_json", "array", "no_job_info", "null_job_info", "job_id_only",
                  "studio_id_only", "job"}

TriggerResponses ==
    {HttpFault} \cup { HttpStatus(status) : status \in {500, 401} }
    \cup { HttpOk(shape, <<>>) : shape \in TriggerShapes }

\* Poll bodies: not JSON; an object without updates; updates null; updates a list.
PollResponses ==
    {HttpFault} \cup { HttpStatus(status) : status \in {500, 404} }
    \cup { HttpOk(shape, <<>>) : shape \in {"not_json", "no_updates", "null_updates"} }
    \cup { HttpOk("updates", updates) : updates \in UpdateLists }

ErrorResult(message) == [status |-> "error", message |-> message, output |-> PyNone]

SuccessResult(message, output) == [status |-> "success", message |-> message, output |-> output]

NoAnswer == [found |-> FALSE, raises |-> FALSE, output |-> PyNone]

\* The body of "for update in reversed(updates)" for one update: the answer it
\* returns, an exception, or neither.
\*   out = update.get("output", {}); "answer" in out; "text" in out;
\*   isinstance(out.get("output"), dict) and "answer" in out["output"]
\* On an out that is not a dict, the "in" tests or out.get raise; on an update
\* that is not a dict, update.get raises.
AnswerOf(update) ==
    IF update = NotAnObject THEN [NoAnswer EXCEPT !.raises = TRUE]
    ELSE IF update.type \notin {"chain-success", "agent-step"} THEN NoAnswer
    ELSE LET out == IF update.output = NoOutput THEN PyDict(EmptyItems) ELSE update.output
         IN IF out.type # "dict" THEN [NoAnswer EXCEPT !.raises = TRUE]
            ELSE IF "answer" \in DOMAIN out.items
              THEN [NoAnswer EXCEPT !.found = TRUE, !.output = out.items["answer"]]
            ELSE IF "text" \in DOMAIN out.items
              THEN [NoAnswer EXCEPT !.found = TRUE, !.output = out.items["text"]]
            ELSE IF /\ "output" \in DOMAIN out.items
                    /\ out.items["output"].type = "dict"
                    /\ "answer" \in DOMAIN out.items["output"].items
              THEN [NoAnswer EXCEPT !.found = TRUE, !.output = out.items["output"].items["answer"]]
            ELSE NoAnswer

\* for update in updates: from index 1 up to i, the first update that returns or
\* raises.
SearchForwards(updates, i) ==
    LET hits == { j \in 1..i : AnswerOf(updates[j]).found \/ AnswerOf(updates[j]).raises }
    IN IF hits = {} THEN NoAnswer
       ELSE AnswerOf(updates[CHOOSE j \in hits : \A k \in hits : j <= k])

RECURSIVE SearchBackwards(_, _)
\* for update in reversed(updates): from index i down to 1, the first update that
\* returns or raises.
SearchBackwards(updates, i) ==
    IF i = 0 THEN NoAnswer
    ELSE LET got == AnswerOf(updates[i])
         IN IF got.found \/ got.raises THEN got ELSE SearchBackwards(updates, i - 1)

\* any(u.get("type") == "chain-failed" for u in updates)
ChainFailed(updates) == \E i \in 1..Len(updates) : updates[i].type = "chain-failed"

\* What one poll response makes chat_with_agent do: return a result, or go on
\* with the loop ("continue").
PollOutcome(resp) ==
    IF resp.fault THEN [kind |-> "return", result |-> ErrorResult("exception")]
    ELSE IF resp.status # 200 THEN [kind |-> "continue", result |-> ErrorResult("")]
    ELSE IF resp.shape \in {"not_json", "null_updates"}
      THEN [kind |-> "return", result |-> ErrorResult("exception")]
    ELSE LET updates == IF resp.shape = "no_updates" THEN <<>> ELSE resp.updates
             got == SearchBackwards(updates, Len(updates))
         IN IF got.raises THEN [kind |-> "return", result |-> ErrorResult("exception")]
            ELSE IF got.found
              THEN [kind |-> "return", result |-> SuccessResult("", got.output)]
            ELSE IF ChainFailed(updates)
              THEN [kind |-> "return", result |-> ErrorResult("Agent execution failed.")]
            ELSE [kind |-> "continue", result |-> ErrorResult("")]

IdleRelevance ==
    [pc |-> "idle", op |-> "none", agent_id |-> Absent, attempts |-> 0, log |-> <<>>,
     last |-> HttpFault, result |-> ErrorResult("")]

\* A request sent: the method and, for the trigger POST, the agent_id of its payload.
RequestEvent(method, agent_id) == [ev |-> method, agent_id |-> agent_id, seconds |-> 0]

WaitEvent(seconds) == [ev |-> "sleep", agent_id |-> Absent, seconds |-> seconds]

RelevanceReturn(r, result) == [r EXCEPT !.pc = "done", !.result = result]

\* trigger_research, whole: the credentials check, the POST, the result.
TriggerResearch(resp) ==
    /\ relevance.pc = "idle"
    /\ LET call == [IdleRelevance EXCEPT !.op = "trigger_research",
                                         !.agent_id = relevance_config.agent_id]
           sent == [call EXCEPT !.log = <<RequestEvent("post", relevance_config.agent_id)>>,
                                !.last = resp]
       IN relevance' =
            IF \E field \in {"project_id", "api_key", "agent_id"} : relevance_config[field] = Absent
              THEN RelevanceReturn(call, ErrorResult("Relevance AI credentials missing"))
            ELSE IF resp.fault THEN RelevanceReturn(sent, ErrorResult("exception"))
            ELSE IF resp.status # 200 THEN RelevanceReturn(sent, ErrorResult("API Error"))
            ELSE IF resp.shape \in {"not_json", "array"}
              THEN RelevanceReturn(sent, ErrorResult("exception"))
            ELSE RelevanceReturn(sent,
                     SuccessResult("Research agent triggered successfully", PyNone))
    /\ UNCHANGED relevance_config
    /\ UNCHANGED outsideRelevance

\* chat_with_agent up to the poll loop: the credentials check, the trigger POST,
\* job_id and studio_id.
ChatTrigger(agent_id, resp) ==
    /\ relevance.pc = "idle"
    /\ LET call == [IdleRelevance EXCEPT !.op = "chat_with_agent", !.agent_id = agent_id]
           sent == [call EXCEPT !.log = <<RequestEvent("post", agent_id)>>, !.last = resp]
       IN relevance' =
            IF \E field \in {"project_id", "api_key"} : relevance_config[field] = Absent
              THEN RelevanceReturn(call, ErrorResult("Relevance AI credentials missing"))
            ELSE IF resp.fault THEN RelevanceReturn(sent, ErrorResult("exception"))
            ELSE IF resp.status # 200 THEN RelevanceReturn(sent, ErrorResult("API Error"))
            ELSE IF resp.shape \in {"not_json", "array", "null_job_info"}
              THEN RelevanceReturn(sent, ErrorResult("exception"))
            ELSE IF resp.shape = "job" THEN [sent EXCEPT !.pc = "poll"]
            ELSE RelevanceReturn(sent, SuccessResult("", PyStr(resp.shape)))
    /\ UNCHANGED relevance_config
    /\ UNCHANGED outsideRelevance

\* One iteration of the poll loop: time.sleep(2), the GET, the search.
ChatPoll(resp) ==
    /\ relevance.pc = "poll"
    /\ InRange(relevance.attempts)
    /\ LET polled == [relevance EXCEPT
                        !.attempts = @ + 1,
                        !.log = @ \o <<WaitEvent(PollSleepSeconds),
                                       RequestEvent("get", Absent)>>,
                        !.last = resp]
           outcome == PollOutcome(resp)
       IN relevance' = IF outcome.kind = "return"
                         THEN RelevanceReturn(polled, outcome.result)
                         ELSE polled
    /\ UNCHANGED relevance_config
    /\ UNCHANGED outsideRelevance

\* The loop is exhausted: return the timeout error.
ChatTimeout ==
    /\ relevance.pc = "poll"
    /\ ~InRange(relevance.attempts)
    /\ relevance' = RelevanceReturn(relevance,
                        ErrorResult("Timed out waiting for agent response."))
    /\ UNCHANGED relevance_config
    /\ UNCHANGED outsideRelevance

\* The caller has the result.
RelevanceEnd ==
    /\ relevance.pc = "done"
    /\ relevance' = IdleRelevance
    /\ UNCHANGED relevance_config
    /\ UNCHANGED outsideRelevance

\* ------------------------------------------------------------------ specifications

vars == <<intake_requests, backlog_items, prompt_versions, impact_metrics, audit_log, qa_checks,
          db_initialized, tables_created, racers, open_connections, intake, response, board, page, lab,
          hf_token, agent, mock_globals, mock_summaries, relevance_config, relevance, parsing>>

\* The seeded database, no request handled yet.
Init ==
    /\ intake_requests = SeedIntakeRequests
    /\ backlog_items = SeedBacklogItems
    /\ prompt_versions = SeedPromptVersions
    /\ intake = IdleIntake
    /\ response = NoResponse
    /\ board = NoBoard
    /\ lab = [c \in Calls |-> IdleCall]
    /\ impact_metrics = SeedImpactMetrics
    /\ audit_log = SeedAuditLog
    /\ qa_checks = SeedQaChecks
    /\ db_initialized = TRUE
    /\ tables_created = TRUE
    /\ racers = [t \in Racers |-> IdleRacer]
    /\ open_connections = 0
    /\ page = NoPage
    /\ hf_token \in BOOLEAN
    /\ agent = IdleAgent
    /\ mock_globals = InitialMocks
    /\ mock_summaries = {}
    /\ relevance_config \in RelevanceConfigs
    /\ relevance = IdleRelevance
    /\ parsing = IdleParse

\* The web handlers read neither the credential nor the Relevance configuration:
\* the outcomes of their LLM calls are inputs of the actions.
WebInit ==
    /\ Init
    /\ ~hf_token
    /\ relevance_config = CHOOSE config \in RelevanceConfigs : TRUE

Next ==
    \/ \E form \in FormInputs : IntakeBegin(form)
    \/ \E result \in TriageResults, raises \in BOOLEAN, rid \in GenReqIds, now \in Clock :
          IntakeTriage(result, raises, rid, now)
    \/ \E raises \in BOOLEAN : IntakeRequirements(raises)
    \/ \E fault \in BOOLEAN, bid \in GenBlgIds : IntakeInsertRequest(fault, bid)
    \/ \E fault \in BOOLEAN : IntakeInsertBacklog(fault)
    \/ IntakeRespond
    \/ \E item_id \in ItemIdInputs, new_status \in StatusInputs, now \in Clock,
          fault \in BOOLEAN :
          BacklogUpdate(item_id, new_status, now, fault)
    \/ \E team \in TeamFilters, status \in StatusFilters, fault \in BacklogFaults :
          BacklogPage(team, status, fault)
    \/ Finalize

Spec == WebInit /\ [][Next]_vars

\* Every page route, with POST /builder/generate, one request at a time.
PagesNext ==
    \/ \E form \in FormInputs : IntakeBegin(form)
    \/ \E result \in TriageResults, raises \in BOOLEAN, rid \in GenReqIds, now \in Clock :
          IntakeTriage(result, raises, rid, now)
    \/ \E raises \in BOOLEAN : IntakeRequirements(raises)
    \/ \E fault \in BOOLEAN, bid \in GenBlgIds : IntakeInsertRequest(fault, bid)
    \/ \E fault \in BOOLEAN : IntakeInsertBacklog(fault)
    \/ IntakeRespond
    \/ \E fault \in OverviewFaults : Overview(fault)
    \/ \E fault \in IntakePageFaults : IntakePage(fault)
    \/ \E team \in TeamFilters, status \in StatusFilters, fault \in BacklogFaults :
          BacklogPage(team, status, fault)
    \/ \E request_id \in BuilderInputs, fault \in BuilderFaults : BuilderPage(request_id, fault)
    \/ \E request_id \in BuilderInputs, fault \in GenerateFaults, raises \in BOOLEAN :
          BuilderGenerate(request_id, fault, raises)
    \/ \E fault \in GovernanceFaults : GovernancePage(fault)
    \/ \E fault \in ImpactFaults : ImpactPage(fault)
    \/ Finalize

SpecPages == WebInit /\ [][PagesNext]_vars

\* Prompt-lab calls for any requests, interleaving at the handler's waits.
LabNext ==
    \/ \E c \in Calls, request_id \in LabRequestInputs, fault \in BOOLEAN :
          LabBegin(c, request_id, fault)
    \/ \E c \in Calls : LabCallLlm(c)
    \/ \E c \in Calls, pv_id \in GenPvIds, fault \in BOOLEAN : LabInsert(c, pv_id, fault)
    \/ \E c \in Calls : LabEnd(c)
    \/ Finalize

SpecLab == WebInit /\ [][LabNext]_vars

\* Prompt-lab calls that do not overlap.
SeqLabNext ==
    \/ \E c \in Calls, request_id \in LabRequestInputs, fault \in BOOLEAN :
          SeqLabBegin(c, request_id, fault)
    \/ \E c \in Calls : LabCallLlm(c)
    \/ \E c \in Calls, pv_id \in GenPvIds, fault \in BOOLEAN : LabInsert(c, pv_id, fault)
    \/ \E c \in Calls : LabEnd(c)
    \/ Finalize

SpecLabSeq == WebInit /\ [][SeqLabNext]_vars

\* The task operations of the agent, called one after another, with or without a
\* credential.
AgentNext ==
    \/ \E task \in Tasks, input \in AgentInputs : AgentBegin(task, input)
    \/ LlmNoToken
    \/ \E resp \in Responses : LlmPost(resp)
    \/ \E resp \in Responses : LlmRetry(resp)
    \/ \E d \in {0, 1} : AgentFinish(d)
    \/ AgentEnd

\* The agent reads none of the Relevance handler's configuration.
AgentInit == Init /\ relevance_config = CHOOSE config \in RelevanceConfigs : TRUE

SpecAgent == AgentInit /\ [][AgentNext]_vars

\* The calls on the Relevance handler, one after another.
RelevanceNext ==
    \/ \E resp \in TriggerResponses : TriggerResearch(resp)
    \/ \E agent_id \in AgentIdInputs, resp \in TriggerResponses : ChatTrigger(agent_id, resp)
    \/ \E resp \in PollResponses : ChatPoll(resp)
    \/ ChatTimeout
    \/ RelevanceEnd

\* Requests to every route, one handler at a time, each route with one input of
\* each kind: one submission, one card move, one prompt experiment.
AppNext ==
    \/ \E form \in {CHOOSE f \in FormInputs : "urgency" \in DOMAIN f} : AppIntakeBegin(form)
    \/ \E result \in {CHOOSE r \in TriageResults : r._source = "mock"}, raises \in BOOLEAN,
          rid \in {GenId("REQ", 1)}, now \in Clock :
          IntakeTriage(result, raises, rid, now)
    \/ \E raises \in BOOLEAN : IntakeRequirements(raises)
    \/ \E fault \in BOOLEAN, bid \in {GenId("BLG", 1)} : IntakeInsertRequest(fault, bid)
    \/ \E fault \in BOOLEAN : IntakeInsertBacklog(fault)
    \/ IntakeRespond
    \/ \E new_status \in {"Deployed"}, now \in Clock, fault \in BOOLEAN :
          BacklogUpdate("BLG-007", new_status, now, fault)
    \/ \E fault \in {0, 2} : Overview(fault)
    \/ \E fault \in {0, 2} : IntakePage(fault)
    \/ \E status \in {"", "Deployed"}, fault \in {0, 2} : BacklogPage("", status, fault)
    \/ \E request_id \in BuilderInputs, fault \in {0, 2} : BuilderPage(request_id, fault)
    \/ \E request_id \in BuilderInputs, fault \in {0, 2}, raises \in BOOLEAN :
          BuilderGenerate(request_id, fault, raises)
    \/ \E fault \in {0, 2} : GovernancePage(fault)
    \/ \E fault \in {0, 2} : ImpactPage(fault)
    \/ \E request_id \in {"REQ-001", "REQ-404"}, fault \in BOOLEAN :
          AppLabBegin(1, request_id, fault)
    \/ LabCallLlm(1)
    \/ \E pv_id \in {GenId("PV", 1)}, fault \in BOOLEAN : LabInsert(1, pv_id, fault)
    \/ LabEnd(1)
    \/ Finalize

SpecApp == WebInit /\ [][AppNext]_vars

\* The aggregates of GET /impact and GET / are functions of the content of
\* impact_metrics: the table holds any of the seed rows and of two further rows,
\* one not yet deployed that carries an adoption rate and an ROI estimate, and
\* one deployed for a week.
ImpactRows ==
    SeedImpactMetrics \cup
    { [id |-> "IMP-005", request_id |-> "REQ-002", manual_time_before |-> 100, ai_time_after |-> 25,
       adoption_rate |-> 505, roi_estimate |-> 10004, weeks_deployed |-> 0],
      [id |-> "IMP-006", request_id |-> "REQ-005", manual_time_before |-> 60, ai_time_after |-> 45,
       adoption_rate |-> 335, roi_estimate |-> 15, weeks_deployed |-> 1] }

ImpactInit ==
    /\ impact_metrics \in SUBSET ImpactRows
    /\ intake_requests = SeedIntakeRequests
    /\ backlog_items = SeedBacklogItems
    /\ prompt_versions = SeedPromptVersions
    /\ audit_log = SeedAuditLog
    /\ qa_checks = SeedQaChecks
    /\ db_initialized = TRUE
    /\ tables_created = TRUE
    /\ racers = [t \in Racers |-> IdleRacer]
    /\ open_connections = 0
    /\ intake = IdleIntake
    /\ response = NoResponse
    /\ board = NoBoard
    /\ page = NoPage
    /\ lab = [c \in Calls |-> IdleCall]
    /\ hf_token = FALSE
    /\ agent = IdleAgent
    /\ mock_globals = InitialMocks
    /\ mock_summaries = {}
    /\ relevance_config = CHOOSE config \in RelevanceConfigs : TRUE
    /\ relevance = IdleRelevance
    /\ parsing = IdleParse

ImpactNext ==
    \/ \E fault \in ImpactFaults : ImpactPage(fault)
    \/ \E fault \in OverviewFaults : Overview(fault)
    \/ Finalize

SpecImpact == ImpactInit /\ [][ImpactNext]_vars

\* _parse_json is a function of its argument: None, or any of the texts.
ParseInputs == {[some |-> FALSE, text |-> <<>>]} \cup { [some |-> TRUE, text |-> t] : t \in Texts }

ParseInit ==
    /\ parsing \in { [IdleParse EXCEPT !.pc = "call", !.text = text] : text \in ParseInputs }
    /\ intake_requests = SeedIntakeRequests
    /\ backlog_items = SeedBacklogItems
    /\ prompt_versions = SeedPromptVersions
    /\ impact_metrics = SeedImpactMetrics
    /\ audit_log = SeedAuditLog
    /\ qa_checks = SeedQaChecks
    /\ db_initialized = TRUE
    /\ tables_created = TRUE
    /\ racers = [t \in Racers |-> IdleRacer]
    /\ open_connections = 0
    /\ intake = IdleIntake
    /\ response = NoResponse
    /\ board = NoBoard
    /\ page = NoPage
    /\ lab = [c \in Calls |-> IdleCall]
    /\ hf_token = FALSE
    /\ agent = IdleAgent
    /\ mock_globals = InitialMocks
    /\ mock_summaries = {}
    /\ relevance_config = CHOOSE config \in RelevanceConfigs : TRUE
    /\ relevance = IdleRelevance

ParseNext == ParseText

SpecParse == ParseInit /\ [][ParseNext]_vars

\* A new database file: no table, the flag False, no request handled yet.
SeedInit ==
    /\ intake_requests = {}
    /\ backlog_items = {}
    /\ prompt_versions = {}
    /\ impact_metrics = {}
    /\ audit_log = {}
    /\ qa_checks = {}
    /\ db_initialized = FALSE
    /\ tables_created = FALSE
    /\ racers = [t \in Racers |-> IdleRacer]
    /\ open_connections = 0
    /\ intake = IdleIntake
    /\ response = NoResponse
    /\ board = NoBoard
    /\ page = NoPage
    /\ lab = [c \in Calls |-> IdleCall]
    /\ hf_token = FALSE
    /\ agent = IdleAgent
    /\ mock_globals = InitialMocks
    /\ mock_summaries = {}
    /\ relevance_config = CHOOSE config \in RelevanceConfigs : TRUE
    /\ relevance = IdleRelevance
    /\ parsing = IdleParse

\* The first requests of a process, their get_db calls interleaving at every
\* statement.
SeedNext ==
    \/ \E t \in Racers : GetDbBegin(t)
    \/ \E t \in Racers : InitConnect(t)
    \/ \E t \in Racers : CreateTables(t)
    \/ \E t \in Racers : SeedCount(t)
    \/ \E t \in Racers : SeedInsert(t)
    \/ \E t \in Racers : SetFlag(t)
    \/ \E t \in Racers : GetDbConnect(t)
    \/ \E t \in Racers : RacerEnd(t)
    \/ Restart
    \/ Finalize

SpecSeed == SeedInit /\ [][SeedNext]_vars

\* One get_db call at a time, POST /intake submissions in between.
SeqSeedNext ==
    \/ \E t \in Racers : SeqGetDbBegin(t)
    \/ \E t \in Racers : InitConnect(t)
    \/ \E t \in Racers : CreateTables(t)
    \/ \E t \in Racers : SeedCount(t)
    \/ \E t \in Racers : SeedInsert(t)
    \/ \E t \in Racers : SetFlag(t)
    \/ \E t \in Racers : GetDbConnect(t)
    \/ \E t \in Racers : RacerEnd(t)
    \/ Restart
    \/ Finalize
    \/ \E form \in FormInputs : SeededIntakeBegin(form)
    \/ \E result \in TriageResults, raises \in BOOLEAN, rid \in GenReqIds, now \in Clock :
          IntakeTriage(result, raises, rid, now)
    \/ \E raises \in BOOLEAN : IntakeRequirements(raises)
    \/ \E fault \in BOOLEAN, bid \in GenBlgIds : IntakeInsertRequest(fault, bid)
    \/ \E fault \in BOOLEAN : IntakeInsertBacklog(fault)
    \/ IntakeRespond

SpecSeedSeq == SeedInit /\ [][SeqSeedNext]_vars

\* One get_db call at a time, where a statement of seed_data may fail.
FaultySeedNext ==
    \/ \E t \in Racers : SeqGetDbBegin(t)
    \/ \E t \in Racers : InitConnect(t)
    \/ \E t \in Racers : CreateTables(t)
    \/ \E t \in Racers : SeedCount(t)
    \/ \E t \in Racers : SeedInsert(t)
    \/ \E t \in Racers : SeedFault(t)
    \/ \E t \in Racers : SetFlag(t)
    \/ \E t \in Racers : GetDbConnect(t)
    \/ \E t \in Racers : RacerEnd(t)
    \/ Restart
    \/ Finalize

SpecSeedFault == SeedInit /\ [][FaultySeedNext]_vars

\* The handler reads none of the LLM agent's configuration.
RelevanceInit == Init /\ ~hf_token

\* A call, once made, runs on: each request ends (with a response or a fault,
\* timeout=30 at the latest) and each sleep ends.
SpecRelevance == RelevanceInit /\ [][RelevanceNext]_vars /\ WF_vars(RelevanceNext)

\* ------------------------------------------------------------------ claims

\* The backlog items that reference intake request r.
ItemsOf(r) == { b \in backlog_items : b.request_id = r.id }

\* C1: whenever no submission is in progress, every intake_requests row is
\* referenced by exactly one backlog_items row, also after submissions in which
\* a database statement failed partway.
C1_ExactlyOneBacklogItem ==
    intake.pc = "idle" => \A r \in intake_requests : Cardinality(ItemsOf(r)) = 1

\* The columns of the rendered board that hold item r.
ColumnsHolding(r) == { col \in KanbanLabels : r \in board.columns[col] }

RECURSIVE SumColumns(_)
SumColumns(cols) ==
    IF cols = {} THEN 0
    ELSE LET col == CHOOSE c \in cols : TRUE
         IN Cardinality(board.columns[col]) + SumColumns(cols \ {col})

\* C2: every item the filtered board query returned is in exactly one of the six
\* columns, the union of the columns is the query's result, and the column sizes
\* add up to total_items.
C2_BoardPartition ==
    board.rendered =>
        /\ \A r \in board.items : Cardinality(ColumnsHolding(r)) = 1
        /\ UNION { board.columns[col] : col \in KanbanLabels } = board.items
        /\ SumColumns(KanbanLabels) = board.total_items

\* C3: for every request, the version numbers of its prompt_versions rows are
\* pairwise distinct and are exactly 1..n for its n rows.
C3_DenseUniqueVersions ==
    \A request_id \in Ids(intake_requests) :
        VersionsOf(prompt_versions, request_id) =
            1..Cardinality({ p \in prompt_versions : p.request_id = request_id })

\* C4: a successful call stores one row for its request, whose version is 1 + the
\* request's maximum version before the insert (0 if none), returns that version,
\* and leaves the rows of the other requests as they were.
C4_SequentialNextVersion ==
    [][ \A c \in Calls :
          (lab[c].pc = "insert" /\ lab'[c].pc = "done" /\ lab'[c].result.success) =>
              LET request_id == lab[c].request_id
                  expected == MaxVersion(prompt_versions, request_id) + 1
              IN /\ lab'[c].result.version = expected
                 /\ \E p \in prompt_versions' \ prompt_versions :
                       /\ prompt_versions' = prompt_versions \cup {p}
                       /\ p.request_id = request_id
                       /\ p.version = expected
                 /\ \A other \in Ids(intake_requests) \ {request_id} :
                       VersionsOf(prompt_versions', other) = VersionsOf(prompt_versions, other)
      ]_vars

\* The request that had no prompt versions holds versions 1 and 2, and the seeded
\* request that held 1 and 2 holds 1, 2 and 3.
C4_Witness ==
    /\ VersionsOf(prompt_versions, "REQ-003") = {1, 2}
    /\ VersionsOf(prompt_versions, "REQ-001") = {1, 2, 3}


\* The result of a finished task operation is items plus the two tags, the source
\* tag being source and the latency a non-negative integer.
IsTagged(result, items, source) ==
    /\ result.type = "dict"
    /\ DOMAIN result.items = DOMAIN items \cup {"_source", "_latency_ms"}
    /\ \A k \in DOMAIN items \ {"_source", "_latency_ms"} : result.items[k] = items[k]
    /\ result.items["_source"] = PyStr(source)
    /\ result.items["_latency_ms"].type = "int"
    /\ result.items["_latency_ms"].n >= 0

\* C5: triage_request, generate_requirements and generate_blueprint, whatever raw
\* text the LLM call returned, do not raise and return either the parsed object
\* tagged _source = "llm" or the task's mock payload tagged _source = "mock".
C5_ParseNeverRaises ==
    (agent.pc = "done" /\ agent.task \in JsonTasks /\ agent.raised # "_call_llm") =>
        /\ agent.raised = ""
        /\ \/ /\ ParsedOf(agent.raw).type = "dict"
              /\ IsTagged(agent.result, ParsedOf(agent.raw).items, "llm")
           \/ IsTagged(agent.result, InitialMocks[agent.task], "mock")

\* The last response _call_llm has received.
LastResponse == agent.resps[Len(agent.resps)]

\* _call_llm has returned to the task operation.
LlmReturned == agent.pc \in {"parse", "done"} /\ agent.raised # "_call_llm"

\* C6: _call_llm never raises to its caller. With no credential it returns None
\* and sends nothing. It returns None after a request fault, after a status other
\* than 200, after a 200 body that is not JSON, has no or empty choices, or whose
\* content is not a string, on the first request and on the retry alike. After a
\* 200 body whose first choice has no message or no content key it returns the
\* empty string.
C6_CallLlmTotal ==
    /\ agent.raised # "_call_llm"
    /\ (LlmReturned /\ ~hf_token) => (agent.log = <<>> /\ agent.raw = NoText)
    /\ (LlmReturned /\ hf_token) =>
        /\ Len(agent.resps) \in {1, 2}
        /\ LastResponse.fault => agent.raw = NoText
        /\ (~LastResponse.fault /\ LastResponse.status # 200) => agent.raw = NoText
        /\ LastResponse.shape \in {"not_json", "no_choices", "empty_choices",
                                   "null_content", "number_content"} => agent.raw = NoText
        /\ LastResponse.shape \in {"no_message", "no_content"} => agent.raw = SomeText(<<>>)

\* C6 reached: the retry answered 200 with a first choice that has no content key,
\* and _call_llm returned the empty string.
C6_Witness ==
    /\ hf_token
    /\ agent.pc = "parse"
    /\ Len(agent.resps) = 2
    /\ agent.resps[2].shape = "no_content"
    /\ agent.raw = SomeText(<<>>)

\* C6 as stated: every 200 body with malformed content, a first choice without
\* message or content included, makes _call_llm return None.
C6_MalformedIsNone ==
    (LlmReturned /\ hf_token /\ LastResponse.shape \in BodyShapes \ {"text"}) =>
        agent.raw = NoText

\* The requests _call_llm has sent so far.
Posts == { i \in 1..Len(agent.log) : agent.log[i].ev = "post" }

\* C7: one _call_llm sends at most two requests; the second only after a first
\* response of status 503, after a sleep of 10 seconds, with the payload of the
\* first; a retry answering 200 with text has that text, stripped, returned; a
\* retry answering 503 or another status makes the call return None, with no
\* third request.
C7_RetryOnce ==
    /\ Cardinality(Posts) <= 2
    /\ Len(agent.log) \in {0, 1, 3}
    /\ Len(agent.log) >= 1 => agent.log[1] = PostEvent(Payload(agent.task, agent.input))
    /\ Len(agent.log) = 3 =>
        /\ ~agent.resps[1].fault /\ agent.resps[1].status = 503
        /\ agent.log[2] = SleepEvent(10)
        /\ agent.log[3] = PostEvent(agent.log[1].payload)
        /\ Len(agent.resps) = 2
        /\ agent.pc \in {"parse", "done"}
        /\ (agent.resps[2].status = 200 /\ agent.resps[2].shape = "text") =>
               agent.raw = SomeText(Strip(agent.resps[2].content))
        /\ (~agent.resps[2].fault /\ agent.resps[2].status # 200) => agent.raw = NoText

\* C7 reached: the first request got 503, the retry 200 with a text in white
\* space, which was returned stripped.
C7_Witness ==
    /\ agent.pc = "parse"
    /\ Len(agent.log) = 3
    /\ agent.resps[2].status = 200
    /\ agent.resps[2].shape = "text"
    /\ agent.raw.text # <<>>
    /\ agent.raw.text # agent.resps[2].content

\* The keys a task operation adds to its result.
TagKeys == {"_source", "_latency_ms"}

PollRequests == { i \in 1..Len(relevance.log) : relevance.log[i].ev = "get" }

\* An output object with an answer in it: under "answer", "text", or "answer"
\* of a nested "output" object.
HasAnswer(out) ==
    /\ out.type = "dict"
    /\ \/ DOMAIN out.items \cap {"answer", "text"} # {}
       \/ /\ "output" \in DOMAIN out.items
          /\ out.items["output"].type = "dict"
          /\ "answer" \in DOMAIN out.items["output"].items

\* An update that is neither satisfying nor a failed chain, with a well-formed
\* output (an object) if any.
IdleUpdate(u) ==
    /\ u # NotAnObject
    /\ u.type # "chain-failed"
    /\ u.output # NoOutput => u.output.type = "dict"
    /\ u.type \in {"chain-success", "agent-step"} => ~HasAnswer(u.output)

\* The last poll answered non-200, or 200 with updates none of which is
\* satisfying or a failed chain.
LastPollIdle ==
    \/ ~relevance.last.fault /\ relevance.last.status # 200
    \/ /\ relevance.last.shape \in {"no_updates", "updates"}
       /\ \A i \in 1..Len(relevance.last.updates) : IdleUpdate(relevance.last.updates[i])

\* C9, safety: chat_with_agent sends at most 30 polls, each right after a sleep of
\* 2 seconds; a poll answering non-200, or 200 with neither an answer nor a failed
\* chain, uses up one attempt and the loop goes on; after 30 such polls the result
\* is the timeout error, and no request follows.
C9_PollsBounded ==
    relevance.op = "chat_with_agent" =>
        /\ Cardinality(PollRequests) <= 30
        /\ Cardinality(PollRequests) = relevance.attempts
        /\ \A i \in PollRequests : i > 1 /\ relevance.log[i - 1] = WaitEvent(2)
        /\ Len(relevance.log) <= 1 + 2 * 30
        /\ PollRequests # {} => relevance.log[1].ev = "post"
        /\ (relevance.attempts >= 1 /\ LastPollIdle) =>
               \/ relevance.pc = "poll"
               \/ /\ relevance.pc = "done"
                  /\ relevance.attempts = 30
                  /\ relevance.result = ErrorResult("Timed out waiting for agent response.")
        /\ relevance.result = ErrorResult("Timed out waiting for agent response.") =>
               /\ relevance.pc = "done"
               /\ relevance.attempts = 30
               /\ LastPollIdle

\* C9: chat_with_agent always terminates, within the bounds of C9_PollsBounded.
C9_ChatTerminates ==
    /\ []C9_PollsBounded
    /\ (relevance.op = "chat_with_agent" /\ relevance.pc = "poll") ~> (relevance.pc = "done")

\* C9 reached: 30 polls went by without a terminal update, the last one a 200 with
\* an agent-step that has no answer, and the call returned the timeout error.
C9_Witness ==
    /\ relevance.op = "chat_with_agent"
    /\ relevance.pc = "done"
    /\ relevance.attempts = 30
    /\ relevance.last.status = 200
    /\ Len(relevance.last.updates) = 2
    /\ relevance.last.updates[2].type = "agent-step"
    /\ relevance.result = ErrorResult("Timed out waiting for agent response.")

\* C10: trigger_research and chat_with_agent, when the project id, the API key or
\* the agent id (for chat_with_agent, the agent_id argument) is absent, return
\* status "error" and make no network call.
C10_NoCallWithoutCredentials ==
    (/\ relevance.op # "none"
     /\ \/ relevance_config.project_id = Absent
        \/ relevance_config.api_key = Absent
        \/ relevance.agent_id = Absent) =>
        /\ relevance.log = <<>>
        /\ relevance.pc = "done"
        /\ relevance.result.status = "error"

\* The context of the success rendering of each page route.
SuccessContext(route) ==
    CASE route = "GET /" -> OverviewContext
      [] route = "GET /intake" -> IntakePageContext
      [] route = "POST /intake" -> IntakeSubmitContext("", [_source |-> "none"])
      [] route = "GET /backlog" -> BacklogContext("", "", {}, BoardColumns({}), {})
      [] route = "GET /builder" -> BuilderContext(CHOOSE r \in SeedIntakeRequests : TRUE)
      [] route = "GET /governance" -> GovernanceContext
      [] route = "GET /impact" -> ImpactContext

PageRoutes ==
    {"GET /", "GET /intake", "POST /intake", "GET /backlog", "GET /builder", "GET /governance",
     "GET /impact"}

\* The rendered page is the one of the except clause of a page route.
FaultPage ==
    /\ page.route \in PageRoutes
    /\ ~response.ok
    /\ page.context.error # PyStr("Request not found")

\* A context value that is a zero aggregate, an empty list, a board of empty
\* columns, an empty filter or None.
ZeroOrEmpty(v) ==
    IF "type" \notin DOMAIN v THEN \A col \in DOMAIN v : v[col].len = 0
    ELSE CASE v.type = "int" -> v.n = 0
           [] v.type = "float" -> v.tenths = 0
           [] v.type = "list" -> v.len = 0
           [] v.type = "str" -> v.s = ""
           [] v.type = "NoneType" -> TRUE
           [] OTHER -> FALSE

\* C11: a fault in any database operation of a page route, obtaining the
\* connection included, yields a rendered page whose error field is a non-empty
\* string, whose aggregates and lists are zero or empty, and which carries every
\* field the success rendering of that page carries.
C11_FaultPageComplete ==
    FaultPage =>
        /\ page.template # "json"
        /\ page.status_code = 200
        /\ page.context.error.type = "str"
        /\ page.context.error.s # ""
        /\ \A k \in DOMAIN page.context \ {"request", "error"} : ZeroOrEmpty(page.context[k])
        /\ DOMAIN SuccessContext(page.route) \subseteq DOMAIN page.context


\* No handler is in progress: every request that came in has been answered.
NoRequestInProgress ==
    /\ intake.pc = "idle"
    /\ \A c \in Calls : lab[c].pc \in {"idle", "done"}

\* C12: every handler closes every connection it opened before it returns, on
\* its success, its not-found and its fault paths: whenever no request is in
\* progress, no connection is open.
C12_NoOpenConnection == NoRequestInProgress => open_connections = 0


\* The seed dataset, by table.
SeedDataset == [table \in DOMAIN Tables |-> SeedRows(table)]

\* C13: when get_db calls race on an empty, uninitialized database (each reads
\* the flag as False and runs create_tables and seed_data), no call fails, and
\* once the calls are over and the flag is set the database holds exactly one
\* copy of the seed dataset.
C13_RaceHarmless ==
    /\ \A t \in Racers : racers[t].pc # "failed"
    /\ (db_initialized /\ \A t \in Racers : racers[t].pc = "idle") => Tables = SeedDataset

\* C13, the part that holds: the database ends with exactly one copy of the seed
\* dataset, and no table ever holds a row that is not a seed row.
C13_OneCopy ==
    /\ \A table \in DOMAIN Tables : Tables[table] \subseteq SeedRows(table)
    /\ (db_initialized /\ \A t \in Racers : racers[t].pc = "idle") => Tables = SeedDataset


\* The steps of initialize_database up to the emptiness check of seed_data.
BeforeInserts == {"initialize", "create", "count"}

\* C14: initialize_database is idempotent. A call that runs every insert of
\* seed_data (it found intake_requests empty) leaves 8 intake requests, 8 backlog
\* items, 4 impact metrics, 4 prompt versions, 12 audit-log rows and 10 QA
\* checks; a call that finds rows, seeded or user-submitted, returns at the
\* emptiness check without raising and leaves every table as it found it.
C14_Idempotent ==
    [][\A t \in Racers :
         racers'[t] # racers[t] =>
           /\ racers'[t].pc # "failed"
           /\ racers[t].pc \in BeforeInserts => Tables' = Tables
           /\ (racers[t].pc = "count" /\ intake_requests # {}) => racers'[t].pc = "set_flag"
           /\ (racers[t].pc = "seed" /\ racers'[t].pc = "set_flag") =>
                /\ Cardinality(intake_requests') = 8
                /\ Cardinality(backlog_items') = 8
                /\ Cardinality(impact_metrics') = 4
                /\ Cardinality(prompt_versions') = 4
                /\ Cardinality(audit_log') = 12
                /\ Cardinality(qa_checks') = 10]_vars

\* C14 reached: after a first call that seeded the empty database, a submission
\* that stored a request and its backlog item, and a restart, a later call has
\* returned from initialize_database at the emptiness check.
C14_Witness ==
    /\ \E t \in Racers : racers[t].pc = "set_flag" /\ racers[t].next = 0
    /\ ~db_initialized
    /\ Cardinality(intake_requests) = 9
    /\ Cardinality(backlog_items) = 9
    /\ SeedDataset.audit_log = audit_log


\* The order the claim gives to the events of one submission.
HandlingOrder == <<"triage", "requirements", "insert_request", "insert_backlog">>

\* The LLM calls of the submission in progress are not all over: triage or
\* requirements generation is still to return.
LlmOutstanding == intake.pc \in {"triage", "requirements"}

\* C15: within one POST /intake the finished steps are a prefix of: triage,
\* requirements generation, INSERT INTO intake_requests, INSERT INTO
\* backlog_items; and no step changes a table while an LLM call of the
\* submission is outstanding.
C15_HandlingOrder ==
    /\ [](/\ Len(intake.events) <= Len(HandlingOrder)
          /\ intake.events = SubSeq(HandlingOrder, 1, Len(intake.events)))
    /\ [][LlmOutstanding => Tables' = Tables]_vars

\* C15 reached: a submission has finished all four steps and both rows are
\* stored.
C15_Witness ==
    /\ intake.pc = "respond"
    /\ intake.events = HandlingOrder
    /\ intake.req_id \in Ids(intake_requests)
    /\ intake.blg_id \in Ids(backlog_items)


\* Every column of row r other than status and updated_at is in r2 as it is in r.
SameButStatus(r, r2) ==
    /\ DOMAIN r2 = DOMAIN r
    /\ \A col \in DOMAIN r \ {"status", "updated_at"} : r2[col] = r[col]

\* What a successful POST /backlog/update for item_id leaves alone.
UpdateFrame(item_id) ==
    /\ UNCHANGED <<intake_requests, prompt_versions, impact_metrics, audit_log, qa_checks>>
    /\ Cardinality(backlog_items') = Cardinality(backlog_items)
    /\ \A r \in backlog_items :
         IF r.id = item_id
           THEN \E r2 \in backlog_items' : r2.id = r.id /\ SameButStatus(r, r2)
           ELSE r \in backlog_items'

\* C16: POST /backlog/update changes only the status and updated_at of the
\* backlog item whose id was given: its other columns, every other backlog item
\* and every row of intake_requests, prompt_versions, impact_metrics, audit_log
\* and qa_checks are unchanged, and no row is deleted.
C16_UpdateFrame ==
    [][\A item_id \in ItemIdInputs, new_status \in StatusInputs, now \in Clock :
         BacklogUpdate(item_id, new_status, now, FALSE) => UpdateFrame(item_id)]_vars

\* C16 reached: the seeded item BLG-007 has been moved to Deployed at a new
\* updated_at, and its request REQ-007 still has status Intake.
C16_Witness ==
    /\ response = JsonResponse("POST /backlog/update", 200, TRUE)
    /\ \E r \in backlog_items :
         r.id = "BLG-007" /\ r.status = "Deployed" /\ r.updated_at \in Clock
    /\ \E q \in intake_requests : q.id = "REQ-007" /\ q.status = "Intake"


NotFoundBody == [success |-> FALSE, error |-> PyStr("Request not found")]

StoredRequest == CHOOSE q \in intake_requests : q.id = intake.req_id
StoredItem == CHOOSE b \in backlog_items : b.id = intake.blg_id

\* C19: a successful POST /intake has stored an intake_requests row that holds
\* the submitted requester name, team, pain point, workflow stage, manual time
\* and urgency verbatim ("Medium" when urgency was omitted) with status
\* "Intake", and a backlog_items row with status "Intake" whose request_id is
\* the new intake id and whose requester name, team, GTM stage, complexity,
\* approach and priority score equal those of the intake row.
C19_StoredRows ==
    intake.pc = "respond" =>
        /\ intake.req_id \in Ids(intake_requests)
        /\ intake.blg_id \in Ids(backlog_items)
        /\ StoredRequest.requester_name = intake.form.requester_name
        /\ StoredRequest.requester_team = intake.form.requester_team
        /\ StoredRequest.pain_point = intake.form.pain_point
        /\ StoredRequest.workflow_stage = intake.form.workflow_stage
        /\ StoredRequest.manual_time_hours = intake.form.manual_time_hours
        /\ "urgency" \in DOMAIN intake.form => StoredRequest.urgency = intake.form.urgency
        /\ "urgency" \notin DOMAIN intake.form => StoredRequest.urgency = "Medium"
        /\ StoredRequest.status = "Intake"
        /\ StoredItem.status = "Intake"
        /\ StoredItem.request_id = StoredRequest.id
        /\ \A col \in {"requester_name", "requester_team", "gtm_stage", "complexity", "approach",
                       "priority_score"} : StoredItem[col] = StoredRequest[col]

\* C19 reached: a submission that gave urgency High and whose triage came from
\* the LLM without the expected keys has stored both rows.
C19_Witness ==
    /\ intake.pc = "respond"
    /\ "urgency" \in DOMAIN intake.form
    /\ intake.form.urgency = "High"
    /\ intake.triage._source = "llm"
    /\ StoredRequest.urgency = "High"
    /\ StoredItem.gtm_stage = "Unknown"
    /\ StoredItem.priority_score = 5


\* The rows of impact_metrics with weeks_deployed > 0.
Qualifying == { m \in impact_metrics : m.weeks_deployed > 0 }

\* n, in tenths, is the sum rounded to a whole number.
RoundedToUnits(n, sum) ==
    /\ n % 10 = 0
    /\ n - sum <= 5
    /\ sum - n <= 5

\* n is sum / count rounded to the nearest (all in tenths).
RoundedMean(n, sum, count) ==
    /\ 2 * (n * count - sum) <= count
    /\ 2 * (sum - n * count) <= count

\* C20: GET /impact renders every row of impact_metrics in its metrics list and
\* computes its four aggregates over exactly the rows with weeks_deployed > 0:
\* total hours saved is the sum of manual_time_before minus the sum of
\* ai_time_after, total ROI the sum of roi_estimate (rounded to whole units),
\* average adoption the mean of adoption_rate (to one decimal), deployed count
\* their number; GET / renders the same total hours saved; with no such row
\* every aggregate is 0.
C20_ImpactAggregates ==
    /\ (page.route = "GET /impact" /\ response.ok) =>
         /\ page.context.metrics.ids = Ids(impact_metrics)
         /\ page.context.metrics.len = Cardinality(impact_metrics)
         /\ page.context.total_time_saved.tenths =
              SumColumn(Qualifying, "manual_time_before") - SumColumn(Qualifying, "ai_time_after")
         /\ RoundedToUnits(page.context.total_roi.tenths, SumColumn(Qualifying, "roi_estimate"))
         /\ page.context.deployed_count = PyNum(Cardinality(Qualifying))
         /\ IF Qualifying = {}
              THEN /\ page.context.avg_adoption.tenths = 0
                   /\ page.context.total_roi.tenths = 0
                   /\ page.context.total_time_saved.tenths = 0
              ELSE RoundedMean(page.context.avg_adoption.tenths,
                               SumColumn(Qualifying, "adoption_rate"), Cardinality(Qualifying))
    /\ (page.route = "GET /" /\ response.ok) =>
         page.context.total_time_saved.tenths =
            SumColumn(Qualifying, "manual_time_before") - SumColumn(Qualifying, "ai_time_after")

\* C20 reached: the impact page is rendered for a table that holds deployed rows
\* and a row not yet deployed that carries an ROI estimate and an adoption rate.
C20_Witness ==
    /\ page.route = "GET /impact"
    /\ response.ok
    /\ Cardinality(Qualifying) = 2
    /\ \E m \in impact_metrics :
         m.weeks_deployed = 0 /\ m.roi_estimate > 0 /\ m.adoption_rate > 0
    /\ page.context.deployed_count = PyNum(2)


\* ------------------------------------------------------------------ _parse_json as a function

\* t is the text of one JSON object with nothing around it.
IsObjectText(t) ==
    /\ t # <<>>
    /\ Head(t) = "{"
    /\ t[Len(t)] = "}"
    /\ JsonLoads(t).ok
    /\ JsonLoads(t).val.type = "dict"

\* What lies between an opening fence line and a closing fence line of text.
FencedBodies(text) ==
    { SubSeq(text, i + 1, Len(text) - 2) :
        i \in { i \in 2..(Len(text) - 3) :
                  /\ text[1] = "FENCE"
                  /\ text[i] = "\n"
                  /\ \A j \in 2..(i - 1) : text[j] \notin {"\n", "{", "}"}
                  /\ text[Len(text)] = "FENCE"
                  /\ text[Len(text) - 1] = "\n" } }

\* What lies between words of text that are not JSON.
NoiseBodies(text) ==
    { SubSeq(text, p[1], p[2]) :
        p \in { p \in (1..Len(text)) \X (1..Len(text)) :
                  /\ p[1] <= p[2]
                  /\ \A k \in (1..(p[1] - 1)) \cup ((p[2] + 1)..Len(text)) : text[k] \in {"x", " "}
                  /\ \E k \in (1..(p[1] - 1)) \cup ((p[2] + 1)..Len(text)) : text[k] = "x" } }

\* Neither the cleaned text nor its part from the first "{" to the last "}" is JSON.
BothParsesFail(text) ==
    LET cleaned == Cleaned(text)
        start == FindFirst(cleaned, "{")
        end == FindLast(cleaned, "}")
    IN /\ ~JsonLoads(cleaned).ok
       /\ start >= 1 /\ end >= start => ~JsonLoads(SubSeq(cleaned, start, end)).ok

\* What _parse_json returns for each kind of text.
ReturnCases ==
    /\ ~parsing.text.some \/ parsing.text.text = <<>> => parsing.result = PyNone
    /\ \A t \in FencedBodies(parsing.text.text) \cup NoiseBodies(parsing.text.text) :
         IsObjectText(t) => parsing.result = JsonLoads(t).val
    /\ parsing.text.some /\ parsing.text.text # <<>> /\ BothParsesFail(parsing.text.text)
         => parsing.result = PyNone

\* C21: _parse_json never raises; it returns no result for absent or empty text,
\* the parsed object for an object inside a fenced code block, the parsed object
\* for an object surrounded by noise (the part from the first "{" through the
\* last "}"), and no result when the direct parse and the brace-to-brace parse
\* both fail.
C21_ParseJsonContract ==
    parsing.pc \in {"returned", "raised"} =>
        /\ parsing.pc = "returned"
        /\ ReturnCases

\* The cases of C21 hold for every call that returns.
C21_ReturnCases == parsing.pc = "returned" => ReturnCases

\* A fenced object and an object inside noise have been parsed.
C21_FencedParsed ==
    /\ parsing.pc = "returned"
    /\ \E t \in FencedBodies(parsing.text.text) : IsObjectText(t)
    /\ parsing.result.type = "dict"


\* ------------------------------------------------------------------ the poll's answer

\* chat_with_agent has returned from a poll that answered 200 with an update list.
ReturnedFromPoll ==
    /\ relevance.op = "chat_with_agent"
    /\ relevance.pc = "done"
    /\ relevance.attempts >= 1
    /\ ~relevance.last.fault
    /\ relevance.last.status = 200
    /\ relevance.last.shape = "updates"

\* The output of an update, an empty object when it has none.
OutputOf(u) == IF u.output = NoOutput THEN PyDict(EmptyItems) ELSE u.output

\* The indices of the updates of the two types the search looks at.
OfMatchingType(updates) ==
    { i \in 1..Len(updates) : updates[i].type \in {"chain-success", "agent-step"} }

\* Those of them whose output carries a recognized field.
Answering(updates) == { i \in OfMatchingType(updates) : HasAnswer(OutputOf(updates[i])) }

\* The entries the search cannot read: those that are not objects, and those of
\* the two types whose output is not an object.
Malformed(updates) ==
    { i \in 1..Len(updates) :
        \/ updates[i] = NotAnObject
        \/ i \in OfMatchingType(updates) /\ OutputOf(updates[i]).type # "dict" }

Latest(indices) == CHOOSE i \in indices : \A j \in indices : j <= i

\* The recognized field of an output: answer, else text, else answer of the
\* nested output.
ChosenField(out) ==
    IF "answer" \in DOMAIN out.items THEN out.items["answer"]
    ELSE IF "text" \in DOMAIN out.items THEN out.items["text"]
    ELSE out.items["output"].items["answer"]

\* C22 as stated: on a successful poll the most recent update of type
\* chain-success or agent-step is the one taken, and the call returns status
\* success with that update's answer, else text, else nested output.answer; an
\* older update is never preferred over a more recent one of a matching type.
C22_LatestOfType ==
    (ReturnedFromPoll /\ relevance.result.status = "success") =>
        LET updates == relevance.last.updates
            taken == updates[Latest(OfMatchingType(updates))]
        IN /\ OfMatchingType(updates) # {}
           /\ HasAnswer(OutputOf(taken))
           /\ relevance.result.output = ChosenField(OutputOf(taken))

\* C22, amended: the update taken is the most recent one of type chain-success or
\* agent-step whose output carries a recognized field; the call returns status
\* success with its answer, else text, else nested output.answer, unless a more
\* recent entry cannot be read (it is not an object, or it is of a matching type
\* and its output is not an object), which ends the call with an error; updates
\* of a matching type without a recognized field are passed over.
C22_LatestAnswer ==
    ReturnedFromPoll =>
        LET updates == relevance.last.updates
            latest == Latest(Answering(updates))
            clean == \A i \in Malformed(updates) : Answering(updates) # {} /\ i < latest
        IN /\ (Answering(updates) # {} /\ clean) =>
                relevance.result = SuccessResult("", ChosenField(OutputOf(updates[latest])))
           /\ relevance.result.status = "success" => Answering(updates) # {} /\ clean
           /\ ~clean => relevance.result.status = "error"

\* C22 reached: the most recent update is a chain-success without a recognized
\* field, and the answer of the older agent-step has been returned.
C22_Witness ==
    /\ ReturnedFromPoll
    /\ Len(relevance.last.updates) = 2
    /\ relevance.last.updates[2].type = "chain-success"
    /\ ~HasAnswer(OutputOf(relevance.last.updates[2]))
    /\ relevance.last.updates[1].type = "agent-step"
    /\ relevance.result = SuccessResult("", PyStr("A"))


\* ------------------------------------------------------------------ the failed chain

\* The last request of chat_with_agent was a poll that answered 200 with an
\* update list.
AfterPoll ==
    /\ relevance.op = "chat_with_agent"
    /\ relevance.pc \in {"poll", "done"}
    /\ relevance.attempts >= 1
    /\ ~relevance.last.fault
    /\ relevance.last.status = 200
    /\ relevance.last.shape = "updates"

AgentExecutionFailed == ErrorResult("Agent execution failed.")

\* What C23 says of a poll with these updates.
FailedChainReported(updates) ==
    /\ (Answering(updates) = {} /\ ChainFailed(updates)) =>
          /\ relevance.pc = "done"
          /\ relevance.result = AgentExecutionFailed
    /\ relevance.result = AgentExecutionFailed =>
          /\ relevance.pc = "done"
          /\ Answering(updates) = {}
          /\ ChainFailed(updates)
    /\ (Answering(updates) # {} /\ ChainFailed(updates)) =>
          /\ relevance.pc = "done"
          /\ relevance.result.status = "success"

\* C23: on a successful poll in which no update of type chain-success or
\* agent-step carries a recognized output field, chat_with_agent returns status
\* error "Agent execution failed." at once if any update of the poll has type
\* chain-failed; it returns that failure in this case only, and a poll holding
\* both a satisfying update and a chain-failed update yields status success.
C23_FailedChain == AfterPoll => FailedChainReported(relevance.last.updates)

\* C23 holds of the polls all of whose entries can be read.
C23_ReadableFailedChain ==
    (AfterPoll /\ Malformed(relevance.last.updates) = {}) =>
        FailedChainReported(relevance.last.updates)

\* A poll with an older answer and a failed chain after it has returned success.
C23_AnswerBeforeFailure ==
    /\ AfterPoll
    /\ relevance.pc = "done"
    /\ Len(relevance.last.updates) = 2
    /\ relevance.last.updates[2].type = "chain-failed"
    /\ relevance.result = SuccessResult("", PyStr("A"))


\* ------------------------------------------------------------------ closed vocabularies

\* C24: in every state reachable by intake submissions and POST /backlog/update
\* calls, the status of every backlog item is one of the six Kanban labels
\* Intake, Scoping, In Build, QA, Deployed, Measuring.
C24_StatusIsKanbanLabel == \A r \in backlog_items : r.status \in KanbanLabels


\* The rows POST /intake has stored.
SubmittedRequests == { q \in intake_requests : q.id \in GenReqIds }
SubmittedItems == { b \in backlog_items : b.id \in GenBlgIds }

\* C25: every intake request and backlog item stored by POST /intake, whatever
\* triage result the agent returned, has a gtm_stage among the four GTM stages,
\* a complexity among the three complexities, an approach among the four
\* approaches and a priority score between 1 and 10.
C25_ClosedVocabularies ==
    \A r \in SubmittedRequests \cup SubmittedItems :
        /\ r.gtm_stage \in GTMStage
        /\ r.complexity \in Complexity
        /\ r.approach \in Approach
        /\ r.priority_score \in 1..10

\* C25 holds of the rows stored from the mock triage result.
C25_MockInVocabulary ==
    (intake.pc = "respond" /\ intake.triage._source = "mock") =>
        /\ StoredRequest.gtm_stage \in GTMStage /\ StoredItem.gtm_stage \in GTMStage
        /\ StoredRequest.complexity \in Complexity /\ StoredItem.complexity \in Complexity
        /\ StoredRequest.approach \in Approach /\ StoredItem.approach \in Approach
        /\ StoredRequest.priority_score \in 1..10 /\ StoredItem.priority_score \in 1..10

\* C26: after a successful POST /intake the title of the new backlog item
\* equals the triage_summary of the new intake request, for every triage result
\* (also one without a summary) and every length of the pain point.
C26_TitleIsTriageSummary ==
    intake.pc = "respond" => StoredItem.title = StoredRequest.triage_summary

\* C26 holds when the triage result has a summary or the pain point is at most
\* 60 characters long.
C26_ShortOrSummarized ==
    (intake.pc = "respond" /\ ("summary" \in DOMAIN intake.triage \/ intake.form.pain_point.len <= 60))
        => StoredItem.title = StoredRequest.triage_summary


\* ------------------------------------------------------------------ referential integrity

\* C27: every row of backlog_items, prompt_versions and impact_metrics references
\* an intake_requests row that exists; a prompt-lab submission for a request id
\* that is not in intake_requests stores no prompt version and returns
\* {success: false, error} with status 500.
C27_ReferentialIntegrity ==
    /\ \A r \in backlog_items \cup prompt_versions \cup impact_metrics :
         r.request_id \in Ids(intake_requests)
    /\ \A c \in Calls :
         (lab[c].pc = "done" /\ lab[c].request_id \notin Ids(intake_requests)) =>
            /\ lab[c].result.success = FALSE
            /\ lab[c].result.status_code = 500
            /\ VersionsOf(prompt_versions, lab[c].request_id) = {}

\* C27 reached: a prompt-lab submission for REQ-404 went as far as its INSERT and
\* has returned the failure, after a submission stored a row of its own.
C27_Witness ==
    /\ lab[1].pc = "done"
    /\ lab[1].request_id = "REQ-404"
    /\ lab[1].result.status_code = 500
    /\ GenId("REQ", 1) \in Ids(intake_requests)
    /\ \E b \in backlog_items : b.request_id = GenId("REQ", 1)


\* ------------------------------------------------------------------ updates that match nothing

SeedingOver ==
    /\ intake_requests # {}
    /\ \A t \in Racers : racers[t].pc # "seed"

\* C29: seed_data decides from the row count of intake_requests alone: once a
\* seeding has stopped after the intake_requests insert, every later
\* initialize_database call is a no-op, so the tables stay as the interruption
\* left them and the seed dataset is never completed.
C29_NeverCompleted ==
    [][SeedingOver =>
         /\ SeedingOver'
         /\ UNCHANGED <<intake_requests, backlog_items, prompt_versions, impact_metrics,
                        audit_log, qa_checks>>]_vars

\* C29 reached: seeding stopped with three of the six tables filled, and a later
\* get_db call has run initialize_database, set the flag and returned.
C29_Witness ==
    /\ db_initialized
    /\ intake_requests = SeedIntakeRequests
    /\ backlog_items = SeedBacklogItems
    /\ impact_metrics = SeedImpactMetrics
    /\ prompt_versions = {}
    /\ audit_log = {}
    /\ qa_checks = {}
    /\ \E t \in Racers : racers[t].pc = "handler"


\* ------------------------------------------------------------------ the initialized flag

\* The pcs of a get_db call inside initialize_database, and right after it.
Initializing == {"initialize", "create", "count", "seed", "set_flag"}

\* C30: within a process the flag _db_initialized becomes True only when
\* initialize_database has returned without fault, and never becomes False
\* again; when initialization raises the flag stays False and the next request
\* runs initialization again; once the flag is True no request runs
\* create_tables or seed_data.
C30_FlagOnlyAfterInitialization ==
    [][~Restart =>
         /\ db_initialized => db_initialized'
         /\ (~db_initialized /\ db_initialized') =>
               \E t \in Racers : racers[t].pc = "set_flag" /\ racers'[t].pc = "connect"
         /\ \A t \in Racers :
               /\ (racers[t].pc # "failed" /\ racers'[t].pc = "failed") => ~db_initialized'
               /\ (racers[t].pc = "idle" /\ racers'[t].pc # "idle") =>
                     racers'[t].pc = IF db_initialized THEN "connect" ELSE "initialize"
               /\ db_initialized' => racers'[t].pc \notin Initializing]_vars

\* C30 reached: initialization raised on one request after two tables were
\* filled, and the next request has run it again and set the flag.
C30_Witness ==
    /\ db_initialized
    /\ intake_requests = SeedIntakeRequests
    /\ backlog_items = SeedBacklogItems
    /\ impact_metrics = {}
    /\ \E t \in Racers : racers[t].pc = "connect"

====
